---- MODULE Spec2Model ----
(***************************************************************************)
(* Session and version store of the video editor backend                   *)
(* (src/backend/index.js, session variant, lines 643-1501).                *)
(*                                                                         *)
(* Every request handler is an async function: it runs without             *)
(* interruption up to an await on an external process (ffmpeg, whisper,    *)
(* a file read, an unlink) and resumes later, other handlers running in    *)
(* between.  One action models one such uninterrupted stretch.             *)
(***************************************************************************)
EXTENDS Integers, Sequences, FiniteSets, TLC

(* ----------------------------- bounds --------------------------------- *)
MaxSessions == 2
MaxRequests == 2

\* the blocks of a subtitle text, its cut-off ending not counted
MaxBlocks == 3

(* ----------------------------- inputs --------------------------------- *)
\* session ids are uuidv4 values; 0 stands for an id that names no session
SessionIds == 1..MaxSessions
UnknownSession == 0
NoSession == 0

\* uploaded files: the id is the uuid part of the stored name, the extension
\* is the one of the original name (multer filename callback)
FileIds == {"f1", "f2"}
ExtOf(f) == IF f = "f1" THEN "mp4" ELSE "mov"

\* a sourceVersion is a string; strings are sequences of characters, the
\* literal original is kept as one token
Original == <<"original">>

R1 == [start |-> 0, end |-> 2]
R2 == [start |-> 3, end |-> 5]

Words == {"Damn"}

DefaultOutputName == "multi_video_joined"

NaN == -1

(* --------------------------- pure helpers ----------------------------- *)
Digits == {"0", "1", "2", "3", "4", "5", "6", "7", "8", "9"}

DigitVal(c) ==
  CASE c = "0" -> 0 [] c = "1" -> 1 [] c = "2" -> 2 [] c = "3" -> 3
    [] c = "4" -> 4 [] c = "5" -> 5 [] c = "6" -> 6 [] c = "7" -> 7
    [] c = "8" -> 8 [] c = "9" -> 9

RECURSIVE ParseDigits(_, _, _)
ParseDigits(str, i, acc) ==
  IF i > Len(str) \/ str[i] \notin Digits THEN acc
  ELSE ParseDigits(str, i + 1, acc * 10 + DigitVal(str[i]))

\* parseInt: the longest prefix of decimal digits, NaN when there is none
ParseInt(str) ==
  IF Len(str) = 0 \/ str[1] \notin Digits THEN NaN
  ELSE ParseDigits(str, 1, 0)

\* n.toString() for one digit
DigitString(n) == <<CHOOSE c \in Digits : DigitVal(c) = n>>

\* the sourceVersion values requests carry: the literal, the numbers a
\* history of this size can hold, and a string parseInt reads as 1
SourceVersions ==
  {Original, <<"1", "x">>} \cup {DigitString(n) : n \in 1..(MaxRequests - 1)}

ToLowerCase(w) ==
  IF w = "Damn" THEN "damn" ELSE IF w = "Heck" THEN "heck" ELSE w

UploadPath(fileId) ==
  [dir |-> "uploads", name |-> fileId, v |-> 0, tag |-> "mp4"]

StoredPath(fileId) ==
  [dir |-> "uploads", name |-> fileId, v |-> 0, tag |-> ExtOf(fileId)]

\* `${name}_v${v}${tag}.mp4`
OutputName(name, v, tag) == [name |-> name, v |-> v, tag |-> tag]

ProcessedPath(filename) ==
  [dir |-> "processed", name |-> filename.name, v |-> filename.v,
   tag |-> filename.tag]

Basename(p) == [name |-> p.name, v |-> p.v, tag |-> p.tag]

\* mutant: the version number used as an index into the 0-based array
FindByIndex(history, n, i) ==
  IF n >= 0 /\ n + 1 <= Len(history) THEN n + 1 ELSE 0

RECURSIVE FindVersion(_, _, _)
\* history.find(h => h.version === n): index of the first match, 0 if none
FindVersion(history, n, i) ==
  IF i > Len(history) THEN 0
  ELSE IF history[i].version = n THEN i
  ELSE FindVersion(history, n, i + 1)

(* ------------------------- request bodies ----------------------------- *)
NoPath == [dir |-> "none", name |-> "", v |-> 0, tag |-> ""]

\* what a handler hands to ffmpeg: the operation and its time ranges
NoCommand == [op |-> "none", ranges |-> <<>>]

EmptyBody ==
  [segments |-> <<>>, joinSegments |-> FALSE, selectedWords |-> <<>>,
   videoSegments |-> <<>>, outputName |-> ""]

TrimBodies ==
  { [EmptyBody EXCEPT !.segments = <<R1>>],
    [EmptyBody EXCEPT !.segments = <<R2, R1>>, !.joinSegments = TRUE],
    [EmptyBody EXCEPT !.segments = <<R1>>, !.joinSegments = TRUE] }

AudioBodies == { [EmptyBody EXCEPT !.segments = <<R1>>] }

ProfanityBodies ==
  { [EmptyBody EXCEPT !.segments = <<R1>>],
    [EmptyBody EXCEPT !.selectedWords = <<"Damn">>] }

MultiBodies ==
  { [EmptyBody EXCEPT
       !.videoSegments = <<[videoId |-> "f1", segments |-> <<R1>>]>>],
    [EmptyBody EXCEPT
       !.videoSegments = <<[videoId |-> "f2", segments |-> <<R2>>]>>,
       !.outputName = "f1"],
    EmptyBody }

\* what the transcript of an input may make findProfanityTimestamps return
DetectedSegments == { <<>>, <<R1>> }

\* the words custom-profanity/add requests carry
CustomWords == {"Damn", "Heck"}

\* the result of findProfanityTimestamps on no entries
NoProfanityData == [segments |-> <<>>, detectedWords |-> <<>>]

(* ----------------------------- state ---------------------------------- *)
VARIABLES
  videoSessions,        \* keys of the videoSessions map
  sessionObj,           \* the session objects ever created, by id; an object
                        \* outlives its map entry while a handler holds it
  editHistory,          \* the editHistory map: session id -> array of entries
  customProfanityList,  \* the process-wide Set of custom words
  disk,                 \* existing files: path -> whether the last write
                        \* to it was carried through
  requests,             \* the edit requests, by arrival number
  uploaded,             \* the file ids multer has handed out
  uploadReq,            \* the upload-multiple request in progress
  destroyReq,           \* the session delete request in progress
  detectReq,            \* the detect-profanity request in progress
  page,                 \* the editor page of the frontend
  srt                   \* a subtitle text and what was read from it

vars ==
  <<videoSessions, sessionObj, editHistory, customProfanityList, disk,
    requests, uploaded, uploadReq, destroyReq, detectReq, page, srt>>

store == <<videoSessions, sessionObj, editHistory>>
others == <<uploaded, uploadReq, destroyReq>>
aside == <<detectReq, page, srt>>

RequestIds == 1..MaxRequests

\* added: the words the request's selectedWords.forEach put into
\* customProfanityList that were not in it, while the request is in flight
IdleRequest ==
  [pc |-> "idle", kind |-> "none", sessionId |-> UnknownSession,
   session |-> NoSession, fileId |-> "", sourceVersion |-> <<>>,
   body |-> EmptyBody, inputPath |-> NoPath, outputPath |-> NoPath,
   finalSegments |-> <<>>, command |-> NoCommand, runnable |-> FALSE,
   outcome |-> "none", appended |-> 0, status |-> 0, version |-> 0,
   added |-> {}]

\* sessionId and status are those of the last upload-multiple request, the
\* status being 0 before any answer; before is session.videos as the running
\* request found it
IdleUpload ==
  [pc |-> "idle", sessionId |-> UnknownSession, session |-> NoSession,
   files |-> <<>>, before |-> <<>>, status |-> 0]

\* what the last detect-profanity request was given and what it answered
IdleDetect ==
  [pc |-> "idle", customWords |-> <<>>, changed |-> {}, status |-> 0,
   segments |-> <<>>, transcript |-> <<>>, profanityData |-> NoProfanityData]

\* the page before a report is shown: no report, no selection, nothing sent
IdlePage ==
  [pc |-> "idle", ready |-> FALSE, profanityData |-> <<>>,
   selectedWords |-> <<>>, segments |-> <<>>]

\* no subtitle text read
IdleSrt ==
  [pc |-> "idle", time |-> <<>>, seconds |-> 0, blocks |-> <<>>,
   lines |-> <<>>, threw |-> FALSE, entries |-> <<>>]

\* status is the answer to the last delete request, 0 before any
IdleDestroy ==
  [pc |-> "idle", sessionId |-> UnknownSession, session |-> NoSession,
   histLive |-> FALSE, phase |-> "none", i |-> 0, status |-> 0]

\* the server as it starts
InitServer ==
  /\ videoSessions = {}
  /\ sessionObj = <<>>
  /\ editHistory = <<>>
  /\ customProfanityList = {}
  /\ disk = <<>>
  /\ requests = [r \in RequestIds |-> IdleRequest]
  /\ uploaded = {}
  /\ uploadReq = IdleUpload
  /\ destroyReq = IdleDestroy
  /\ detectReq = IdleDetect

Init ==
  /\ InitServer
  /\ page = IdlePage
  /\ srt = IdleSrt

(* ---------------------------- store access ---------------------------- *)
\* videoSessions.get(sessionId): the object, or undefined
GetSession(sessionId) ==
  IF sessionId \in videoSessions THEN sessionId ELSE NoSession

\* editHistory.get(sessionId) || []
GetHistory(sessionId) ==
  IF sessionId \in DOMAIN editHistory THEN editHistory[sessionId] ELSE <<>>

Exists(path) == path \in DOMAIN disk

WriteFile(d, path, content) ==
  [q \in DOMAIN d \cup {path} |-> IF q = path THEN content ELSE d[q]]

Unlink(d, path) == [q \in DOMAIN d \ {path} |-> d[q]]

\* requests arrive in the order of their numbers
NextRequest(r) ==
  /\ requests[r].pc = "idle"
  /\ \A q \in RequestIds : q < r => requests[q].pc # "idle"

\* mutant: the catch block sets the status and sends nothing
\* (res.status(500) without .json)
RespondOnSuccess(req, status, version) ==
  IF status = 200
  THEN [req EXCEPT !.pc = "done", !.status = status, !.version = version,
                   !.body = EmptyBody, !.finalSegments = <<>>,
                   !.command = NoCommand, !.added = {},
                   !.fileId = "", !.inputPath = NoPath, !.runnable = FALSE]
  ELSE [req EXCEPT !.status = status]

\* res.json / res.status(..).json: the handler is over
\* (what the handler no longer reads is dropped from the state)
Respond(req, status, version) ==
  [req EXCEPT !.pc = "done", !.status = status, !.version = version,
              !.body = EmptyBody, !.finalSegments = <<>>,
              !.command = NoCommand, !.added = {},
              !.fileId = "", !.inputPath = NoPath, !.runnable = FALSE]

\* an answer given before anything was dispatched: a 4xx, or the 500 of the
\* catch block; the request body is kept next to the answer
Reject(req, status) ==
  [req EXCEPT !.pc = "done", !.status = status,
              !.fileId = "", !.inputPath = NoPath, !.runnable = FALSE]

(* --------------------------- POST /api/session/create ----------------- *)
CreateSession ==
  \E id \in SessionIds :
    /\ id \notin DOMAIN sessionObj
    /\ \A j \in SessionIds : j < id => j \in DOMAIN sessionObj
    /\ videoSessions' = videoSessions \cup {id}
    /\ sessionObj' =
         [j \in DOMAIN sessionObj \cup {id} |->
            IF j = id THEN [videos |-> <<>>, currentVersion |-> 0]
            ELSE sessionObj[j]]
    /\ editHistory' =
         [j \in DOMAIN editHistory \cup {id} |->
            IF j = id THEN <<>> ELSE editHistory[j]]
    /\ UNCHANGED <<aside, customProfanityList, disk, requests, others>>

(* ------------------------- input resolution --------------------------- *)
\* mutant: 'original' read as "the latest file"
ResolveInputLatest(sessionId, fileId, sourceVersion) ==
  LET history == GetHistory(sessionId)
      i == FindVersion(history, ParseInt(sourceVersion), 1)
  IN IF sourceVersion = Original
     THEN IF Len(history) > 0
          THEN [found |-> TRUE,
                path |-> ProcessedPath(history[Len(history)].filename)]
          ELSE [found |-> TRUE, path |-> UploadPath(fileId)]
     ELSE IF i = 0 THEN [found |-> FALSE, path |-> NoPath]
     ELSE [found |-> TRUE, path |-> ProcessedPath(history[i].filename)]

\* mutant: an unknown version falls back to the upload instead of the 404
ResolveInputFallback(sessionId, fileId, sourceVersion) ==
  LET history == GetHistory(sessionId)
      i == FindVersion(history, ParseInt(sourceVersion), 1)
  IN IF sourceVersion = Original \/ i = 0
     THEN [found |-> TRUE, path |-> UploadPath(fileId)]
     ELSE [found |-> TRUE, path |-> ProcessedPath(history[i].filename)]

\* lines 1049-1058, 1252-1261, 1301-1310: the same code in the three
\* single-source handlers.  found = FALSE is the 404 'Version not found'.
ResolveInput(sessionId, fileId, sourceVersion) ==
  IF sourceVersion = Original
  THEN [found |-> TRUE, path |-> UploadPath(fileId)]
  ELSE LET history == GetHistory(sessionId)
           i == FindVersion(history, ParseInt(sourceVersion), 1)
       IN IF i = 0 THEN [found |-> FALSE, path |-> NoPath]
          ELSE [found |-> TRUE, path |-> ProcessedPath(history[i].filename)]

\* the suffix of the output name, per handler
OutputTag(kind) ==
  CASE kind = "profanity" -> "_profanity_filtered"
    [] kind = "audio" -> "_audio_removed"
    [] kind = "trim" -> "_trimmed"
    [] kind = "multi" -> ""

\* `${fileId}_v${session.currentVersion + 1}_<tag>.mp4` under processed/
OutputPath(kind, name, session) ==
  ProcessedPath(OutputName(name, sessionObj[session].currentVersion + 1,
                           OutputTag(kind)))

EntryType(kind) ==
  CASE kind = "profanity" -> "profanity_filter"
    [] kind = "audio" -> "audio_removal"
    [] kind = "trim" -> "trim"
    [] kind = "multi" -> "multi_trim_join"

(* ------------------------------ trimVideo ----------------------------- *)
\* mutant: a single range trimmed whatever the join flag says
TrimVideoLenient(segments, joinSegments) ==
  IF Len(segments) = 1 THEN "single"
  ELSE IF joinSegments /\ Len(segments) > 1 THEN "join"
  ELSE "invalid"

\* which branch of trimVideo a configuration takes; "invalid" is the
\* synchronous reject('Invalid trim configuration')
TrimVideo(segments, joinSegments) ==
  IF Len(segments) = 1 /\ ~joinSegments THEN "single"
  ELSE IF joinSegments /\ Len(segments) > 1 THEN "join"
  ELSE "invalid"

RECURSIVE InsertByStart(_, _)
InsertByStart(segment, sorted) ==
  IF Len(sorted) = 0 THEN <<segment>>
  ELSE IF segment.start <= Head(sorted).start THEN <<segment>> \o sorted
  ELSE <<Head(sorted)>> \o InsertByStart(segment, Tail(sorted))

RECURSIVE SortByStart(_)
SortByStart(segments) ==
  IF Len(segments) = 0 THEN <<>>
  ELSE InsertByStart(Head(segments), SortByStart(Tail(segments)))

\* mutant: the ranges put in time order before the filters are built
TrimFiltersSorted(segments) ==
  [i \in 1..Len(segments) |->
     [label |-> i - 1, start |-> SortByStart(segments)[i].start,
      end |-> SortByStart(segments)[i].end]]

\* the join branch: segments.forEach((segment, i) => ...) appends for each
\* range, in array order, a trim/atrim pair labelled [v<i>][a<i>]
TrimFilters(segments) ==
  [i \in 1..Len(segments) |->
     [label |-> i - 1, start |-> segments[i].start,
      end |-> segments[i].end]]

\* concatInputs: the labels in the order they were appended
ConcatInputs(segments) == [i \in 1..Len(segments) |-> i - 1]

\* the clips ffmpeg concatenates: the i-th is the output of the filter that
\* carries the i-th label of concatInputs
ConcatClips(filters, inputs) ==
  [i \in 1..Len(inputs) |->
     LET f == CHOOSE g \in {filters[k] : k \in 1..Len(filters)} :
                 g.label = inputs[i]
     IN [start |-> f.start, end |-> f.end]]

\* the ffmpeg command trimVideo builds; -ss start -t (end - start) in the
\* single branch
TrimCommand(segments, joinSegments) ==
  CASE TrimVideo(segments, joinSegments) = "single" ->
         [op |-> "trim",
          ranges |-> <<[start |-> segments[1].start,
                        end |-> segments[1].start
                                  + (segments[1].end - segments[1].start)]>>]
    [] TrimVideo(segments, joinSegments) = "join" ->
         [op |-> "concat",
          ranges |-> ConcatClips(TrimFilters(segments),
                                 ConcatInputs(segments))]
    [] OTHER -> NoCommand

(* ------------------------- the two mute functions --------------------- *)
\* mutant: the volume filter built whatever the number of ranges
RemoveAudioCommandNoCopy(segments) == [op |-> "volume", ranges |-> segments]

\* removeAudioFromSegments: one volume filter enabled by the sum of the
\* between() terms, or the 'copy' filter for no ranges
RemoveAudioCommand(segments) ==
  IF Len(segments) > 0 THEN [op |-> "volume", ranges |-> segments]
  ELSE [op |-> "copy", ranges |-> <<>>]

\* muteProfanitySegments: a chain of volume filters, one per range, or a
\* stream copy (-c copy) for no ranges
MuteProfanityCommand(segments) ==
  IF Len(segments) = 0 THEN [op |-> "copy", ranges |-> <<>>]
  ELSE [op |-> "volumes", ranges |-> segments]

\* ffmpeg's between(t, lo, hi): 1 when lo <= t <= hi, else 0
Between(t, lo, hi) == IF lo <= t /\ t <= hi THEN 1 ELSE 0

RECURSIVE SumBetween(_, _)
\* between(t,s1,e1)+between(t,s2,e2)+...
SumBetween(ranges, t) ==
  IF Len(ranges) = 0 THEN 0
  ELSE Between(t, Head(ranges).start, Head(ranges).end)
         + SumBetween(Tail(ranges), t)

RECURSIVE ChainVolume(_, _, _)
\* the gain at time t after the chain of volume=enable='between(..)':volume=0
ChainVolume(ranges, t, gain) ==
  IF Len(ranges) = 0 THEN gain
  ELSE ChainVolume(Tail(ranges), t,
                   IF Between(t, Head(ranges).start, Head(ranges).end) # 0
                   THEN 0 ELSE gain)

\* mutant: the enable expression tested for being 1 instead of non-zero
MutesOnce(command, t) ==
  CASE command.op = "volume" -> SumBetween(command.ranges, t) = 1
    [] command.op = "volumes" -> ChainVolume(command.ranges, t, 1) = 0
    [] OTHER -> FALSE

\* whether the audio at time t is silenced by a mute command: a volume
\* filter is enabled when its enable expression is not zero
Mutes(command, t) ==
  CASE command.op = "volume" -> SumBetween(command.ranges, t) # 0
    [] command.op = "volumes" -> ChainVolume(command.ranges, t, 1) = 0
    [] OTHER -> FALSE

(* ------------------- the first stretch of an edit handler ------------- *)
\* Shared by profanity, audio-remove and trim: session lookup, input
\* resolution, output path, mkdir, and the dispatch of the first external
\* process.  req is the request as it arrived.
StartSingleSource(req) ==
  LET session == GetSession(req.sessionId)
      input == ResolveInput(req.sessionId, req.fileId, req.sourceVersion)
      opened == [req EXCEPT !.session = session]
  IN
  IF ~input.found THEN Reject(opened, 404)
  ELSE IF session = NoSession
  THEN \* session.currentVersion on undefined: TypeError, caught
       Reject([opened EXCEPT !.inputPath = input.path], 500)
  ELSE
    LET located ==
          [opened EXCEPT !.inputPath = input.path,
                         !.outputPath = OutputPath(req.kind, req.fileId,
                                                   session),
                         !.runnable = Exists(input.path)]
    IN CASE req.kind = "trim" ->
              IF TrimVideo(req.body.segments, req.body.joinSegments)
                   = "invalid"
              THEN Reject(located, 500)
              ELSE [located EXCEPT
                      !.pc = "executing",
                      !.finalSegments = req.body.segments,
                      !.command = TrimCommand(req.body.segments,
                                              req.body.joinSegments)]
         [] req.kind = "audio" ->
              [located EXCEPT
                 !.pc = "executing",
                 !.finalSegments = req.body.segments,
                 !.command = RemoveAudioCommand(req.body.segments)]
         [] req.kind = "profanity" ->
              IF Len(req.body.segments) = 0
              THEN [located EXCEPT !.pc = "transcribing"]
              ELSE [located EXCEPT
                      !.pc = "executing",
                      !.finalSegments = req.body.segments,
                      !.command = MuteProfanityCommand(req.body.segments)]

\* selectedWords.forEach(word => customProfanityList.add(word.toLowerCase()))
\* runs in the profanity handler once the output path is computed
\* (line 1064), i.e. unless the handler has answered 404 or thrown before
AddSelectedWords(req, started) ==
  IF req.kind = "profanity" /\ started.pc # "done"
  THEN customProfanityList
         \cup {ToLowerCase(req.body.selectedWords[i]) :
                 i \in 1..Len(req.body.selectedWords)}
  ELSE customProfanityList

BodiesOf(kind) ==
  CASE kind = "profanity" -> ProfanityBodies
    [] kind = "audio" -> AudioBodies
    [] kind = "trim" -> TrimBodies

\* POST /api/process/profanity | audio-remove | trim, up to the first await
\* on an external process
StartEdit(r, kinds, fileIds, bodies) ==
  /\ NextRequest(r)
  /\ \E kind \in kinds,
        sessionId \in DOMAIN sessionObj \cup {UnknownSession},
        fileId \in fileIds,
        sourceVersion \in SourceVersions :
       \E body \in bodies[kind] :
         LET req == [IdleRequest EXCEPT
                       !.kind = kind, !.sessionId = sessionId,
                       !.fileId = fileId, !.sourceVersion = sourceVersion,
                       !.body = body]
             started == StartSingleSource(req)
             words == AddSelectedWords(req, started)
         IN /\ requests' =
                 [requests EXCEPT ![r] =
                    [started EXCEPT !.added = words \ customProfanityList]]
            /\ customProfanityList' = words
  /\ UNCHANGED <<aside, videoSessions, sessionObj, editHistory, disk, others>>

(* --------------------------- appending a version ---------------------- *)
Multiple == <<"multiple">>

\* mutant: the append moved into a finally block
AppendsVersionAlways(resolved) == TRUE

\* the code after `await <executor>` runs only when the promise resolved;
\* a rejection goes to the catch block, which answers 500
AppendsVersion(resolved) == resolved

\* mutant: the version taken from the value read before the await, the one
\* the output path was built from
EntryVersionStale(req) == req.outputPath.v

\* session.currentVersion++ ; version: session.currentVersion
EntryVersion(req) == sessionObj[req.session].currentVersion + 1

\* mutant: the entry names the latest version as its source
EntrySourceVersionLatest(req) ==
  IF req.kind = "multi" THEN Multiple
  ELSE IF sessionObj[req.session].currentVersion > 0
  THEN DigitString(sessionObj[req.session].currentVersion)
  ELSE req.sourceVersion

\* sourceVersion of the entry: the request's value, 'multiple' for a join
EntrySourceVersion(req) ==
  IF req.kind = "multi" THEN Multiple ELSE req.sourceVersion

\* mutant: the history replaced by the new entry
PushEntryReplace(history, entry) == <<entry>>

\* history.push(editEntry)
PushEntry(history, entry) == Append(history, entry)

\* mutant: the counter incremented before the await, not undone on failure
CatchCounterBump(currentVersion) == currentVersion + 1

\* the catch block leaves the session object alone
CatchCounter(currentVersion) == currentVersion

\* the editEntry literal of the four handlers; req is the number of the
\* request that builds it (a history variable, not a field of the code)
EditEntry(r) ==
  LET req == requests[r] IN
  [version |-> EntryVersion(req),
   type |-> EntryType(req.kind),
   filename |-> Basename(req.outputPath),
   sourceVersion |-> EntrySourceVersion(req),
   segments |-> IF req.kind \in {"audio", "trim"}
                THEN req.body.segments ELSE <<>>,
   joinSegments |-> req.kind = "trim" /\ req.body.joinSegments,
   segmentsMuted |-> IF req.kind = "profanity"
                     THEN Len(req.finalSegments) ELSE 0,
   selectedWords |-> req.body.selectedWords,
   videoSegments |-> req.body.videoSegments,
   req |-> r]

\* mutant: the array stored under every key of the map
SetHistoryEvery(sessionId, history) ==
  [j \in DOMAIN editHistory \cup {sessionId} |-> history]

\* editHistory.set(sessionId, history)
SetHistory(sessionId, history) ==
  [j \in DOMAIN editHistory \cup {sessionId} |->
     IF j = sessionId THEN history ELSE editHistory[j]]

\* the lines between the executor's await and the response:
\* counter increment, entry, push, set
AppendVersion(r) ==
  LET req == requests[r] IN
  /\ sessionObj' =
       [sessionObj EXCEPT ![req.session].currentVersion = @ + 1]
  /\ editHistory' =
       SetHistory(req.sessionId,
                  PushEntry(GetHistory(req.sessionId), EditEntry(r)))

(* ------------------------ the external executor ----------------------- *)
\* The handler resumes from `await <executor>`: after a resolution it
\* appends the version and (all handlers but profanity, which first awaits
\* a transcript read) responds; after a rejection it runs its catch block.
HandlerResumes(r, resolved) ==
  LET req == [requests[r] EXCEPT
                !.outcome = IF resolved THEN "ok" ELSE "fail"]
  IN
  IF AppendsVersion(resolved)
  THEN /\ AppendVersion(r)
       /\ requests' =
            [requests EXCEPT ![r] =
               IF req.kind = "profanity"
               THEN [req EXCEPT !.pc = "readTranscript",
                                !.appended = EntryVersion(req)]
               ELSE Respond([req EXCEPT !.appended = EntryVersion(req)],
                            200, EntryVersion(req))]
  ELSE /\ sessionObj' =
            [sessionObj EXCEPT ![req.session].currentVersion =
                                  CatchCounter(@)]
       /\ UNCHANGED editHistory
       /\ requests' = [requests EXCEPT ![r] = Respond(req, 500, 0)]

\* ffmpeg ended: the output file is complete
ExecOk(r) ==
  LET req == requests[r] IN
  /\ req.pc = "executing"
  /\ req.runnable
  /\ disk' = WriteFile(disk, req.outputPath, [complete |-> TRUE])
  /\ HandlerResumes(r, TRUE)
  /\ UNCHANGED <<aside, videoSessions, customProfanityList, others>>

\* ffmpeg reported an error: it may have left a partial output file behind
ExecFail(r) ==
  LET req == requests[r] IN
  /\ req.pc = "executing"
  /\ \E partial \in BOOLEAN :
       disk' = IF partial
               THEN WriteFile(disk, req.outputPath,
                              [complete |-> FALSE])
               ELSE disk
  /\ HandlerResumes(r, FALSE)
  /\ UNCHANGED <<aside, videoSessions, customProfanityList, others>>

(* ------------- profanity: automatic detection and the response -------- *)
\* extractAudio, whisper and the JSON read succeeded; the segments found
\* become the ranges to mute and the mute is dispatched
TranscribeOk(r) ==
  LET req == requests[r] IN
  /\ req.pc = "transcribing"
  /\ req.runnable
  /\ \E found \in DetectedSegments :
       requests' = [requests EXCEPT ![r] =
                      [req EXCEPT !.pc = "executing",
                                  !.finalSegments = found,
                                  !.command = MuteProfanityCommand(found),
                                  !.runnable = Exists(req.inputPath)]]
  /\ UNCHANGED <<aside, videoSessions, sessionObj, editHistory,
                 customProfanityList, disk, others>>

\* one of them failed: catch block
TranscribeFail(r) ==
  LET req == requests[r] IN
  /\ req.pc = "transcribing"
  /\ requests' = [requests EXCEPT ![r] = Respond(req, 500, 0)]
  /\ UNCHANGED <<aside, videoSessions, sessionObj, editHistory,
                 customProfanityList, disk, others>>

\* lines 1101-1119: after the await on the transcript read the response
\* carries session.currentVersion as it is then
RespondProfanity(r) ==
  LET req == requests[r] IN
  /\ req.pc = "readTranscript"
  /\ requests' =
       [requests EXCEPT ![r] =
          Respond(req, 200, sessionObj[req.session].currentVersion)]
  /\ UNCHANGED <<aside, videoSessions, sessionObj, editHistory,
                 customProfanityList, disk, others>>

(* ----------------------- POST /api/process/multi-trim-join ------------ *)
\* mutant: the loop over the ranges of an entry left out
ValidVideoSegmentsUnchecked(videoSegments) ==
  /\ Len(videoSegments) > 0
  /\ \A i \in 1..Len(videoSegments) :
       /\ videoSegments[i].videoId # ""
       /\ Len(videoSegments[i].segments) > 0

\* lines 1135-1147: nothing is wrong; otherwise the answer is 400
ValidVideoSegments(videoSegments) ==
  /\ Len(videoSegments) > 0
  /\ \A i \in 1..Len(videoSegments) :
       /\ videoSegments[i].videoId # ""
       /\ Len(videoSegments[i].segments) > 0
       /\ \A j \in 1..Len(videoSegments[i].segments) :
            videoSegments[i].segments[j].start
              < videoSegments[i].segments[j].end

\* session.videos.find(v => v.id === videoId)
HasVideo(session, videoId) ==
  \E i \in 1..Len(sessionObj[session].videos) :
     sessionObj[session].videos[i].id = videoId

RECURSIVE MultiClips(_, _)
\* the trim/atrim pairs of the join, in the order of the two nested forEach
\* loops; input is the 0-based index of the source in the ffmpeg command
MultiClips(videoSegments, videoIndex) ==
  IF Len(videoSegments) = 0 THEN <<>>
  ELSE [j \in 1..Len(Head(videoSegments).segments) |->
          [input |-> videoIndex,
           start |-> Head(videoSegments).segments[j].start,
           end |-> Head(videoSegments).segments[j].end]]
       \o MultiClips(Tail(videoSegments), videoIndex + 1)

StartMultiSource(req) ==
  LET session == GetSession(req.sessionId)
      opened == [req EXCEPT !.session = session]
      vs == req.body.videoSegments
  IN
  IF session = NoSession THEN Reject(opened, 404)
  ELSE IF ~ValidVideoSegments(vs) THEN Reject(opened, 400)
  ELSE
    LET name == IF req.body.outputName = "" THEN DefaultOutputName
                ELSE req.body.outputName
        located == [opened EXCEPT
                      !.outputPath = OutputPath("multi", name, session)]
    IN IF \E i \in 1..Len(vs) : ~HasVideo(session, vs[i].videoId)
       THEN \* throw new Error('Video ... not found in session')
            Reject(located, 500)
       ELSE [located EXCEPT
               !.pc = "executing",
               !.command = [op |-> "concat", ranges |-> MultiClips(vs, 0)],
               !.runnable = \A i \in 1..Len(vs) :
                               Exists(StoredPath(vs[i].videoId))]

StartMulti(r, bodies) ==
  /\ NextRequest(r)
  /\ \E sessionId \in DOMAIN sessionObj \cup {UnknownSession},
        body \in bodies :
       requests' =
         [requests EXCEPT ![r] =
            StartMultiSource([IdleRequest EXCEPT
                                !.kind = "multi", !.sessionId = sessionId,
                                !.body = body])]
  /\ UNCHANGED <<aside, videoSessions, sessionObj, editHistory,
                 customProfanityList, disk, others>>

(* ------------------------------ uploads ------------------------------- *)
UploadedFile == [complete |-> TRUE]

\* the fileInfo pushed to session.videos (the fields the handlers read)
FileInfo(f) == [id |-> f, path |-> StoredPath(f)]

RECURSIVE StoreFiles(_, _)
\* multer writes every file of the request before the handler runs
StoreFiles(d, files) ==
  IF Len(files) = 0 THEN d
  ELSE StoreFiles(WriteFile(d, StoredPath(Head(files)), UploadedFile),
                  Tail(files))

FileBatches ==
  { <<f>> : f \in FileIds } \cup
  { b \in { <<f, g>> : f \in FileIds, g \in FileIds } : b[1] # b[2] }

\* uuidv4 names: no id is handed out twice
FreshBatch(files) == \A i \in 1..Len(files) : files[i] \notin uploaded

\* POST /api/upload: the file is stored and probed, no session involved
Upload ==
  /\ \E f \in FileIds :
       /\ FreshBatch(<<f>>)
       /\ uploaded' = uploaded \cup {f}
       /\ disk' = StoreFiles(disk, <<f>>)
  /\ UNCHANGED <<aside, store, customProfanityList, requests, uploadReq,
                 destroyReq>>

\* the answer of upload-multiple
UploadAnswer(sessionId, status) ==
  [IdleUpload EXCEPT !.sessionId = sessionId, !.status = status]

\* mutant: the loop entered without looking at what videoSessions.get gave
UploadStatusLenient(files, session) ==
  IF Len(files) = 0 THEN 400 ELSE 0

\* the checks before the loop: 400 'No files uploaded', 404 'Session not
\* found', 0 when the loop is entered
UploadStatus(files, session) ==
  IF Len(files) = 0 THEN 400
  ELSE IF session = NoSession THEN 404
  ELSE 0

\* POST /api/upload-multiple up to the first await getVideoInfo
UploadMultiple(batches) ==
  /\ uploadReq.pc = "idle"
  /\ \E files \in batches,
        sessionId \in DOMAIN sessionObj \cup {UnknownSession} :
       /\ FreshBatch(files)
       /\ uploaded' = uploaded \cup {files[i] : i \in 1..Len(files)}
       /\ disk' = StoreFiles(disk, files)
       /\ uploadReq' =
            IF UploadStatus(files, GetSession(sessionId)) # 0
            THEN UploadAnswer(sessionId,
                              UploadStatus(files, GetSession(sessionId)))
            ELSE [IdleUpload EXCEPT
                    !.pc = "probing", !.sessionId = sessionId,
                    !.session = GetSession(sessionId), !.files = files,
                    !.before = IF sessionId \in DOMAIN sessionObj
                               THEN sessionObj[sessionId].videos
                               ELSE <<>>]
  /\ UNCHANGED <<aside, store, customProfanityList, requests, destroyReq>>

\* getVideoInfo resolved: the file is registered, the loop goes on
ProbeOk ==
  /\ uploadReq.pc = "probing"
  /\ sessionObj' =
       [sessionObj EXCEPT ![uploadReq.session].videos =
                             Append(@, FileInfo(Head(uploadReq.files)))]
  /\ uploadReq' =
       IF Len(uploadReq.files) = 1
       THEN UploadAnswer(uploadReq.sessionId, 200)
       ELSE [uploadReq EXCEPT !.files = Tail(@)]
  /\ UNCHANGED <<aside, videoSessions, editHistory, customProfanityList, disk,
                 requests, uploaded, destroyReq>>

\* getVideoInfo rejected: catch block, 500
ProbeFail ==
  /\ uploadReq.pc = "probing"
  /\ uploadReq' = UploadAnswer(uploadReq.sessionId, 500)
  /\ UNCHANGED <<aside, store, customProfanityList, disk, requests, uploaded,
                 destroyReq>>

(* --------------------- POST /api/custom-profanity/add ----------------- *)
AddCustomWords ==
  /\ \E words \in SUBSET CustomWords :
       /\ words # {}
       /\ customProfanityList' =
            customProfanityList \cup {ToLowerCase(w) : w \in words}
  /\ UNCHANGED <<aside, store, disk, requests, others>>

(* ---------------------- POST /api/detect-profanity -------------------- *)
\* A text is a sequence of pieces: " " is one space character, any other
\* piece is a maximal run of characters that are not spaces.
Space == " "

\* the words whisper may recognise
Tokens == {"hello", "Damn", "damn", "heck"}

\* segment.text of a whisper segment: whisper puts a space in front
RawTexts ==
  { <<>>,
    <<Space, "hello">>,
    <<Space, "Damn", Space, "hello">>,
    <<Space, "hello", Space, Space, "heck">>,
    <<Space, "damn", Space>> }

\* the words whisper reports for a text (--word_timestamps True): one per
\* run of characters, with the space in front of it and the times of the
\* segment
RecognisedWords(text, start, end) ==
  LET runs == SelectSeq(text, LAMBDA piece : piece # Space)
  IN  [j \in 1..Len(runs) |->
         [word |-> <<Space, runs[j]>>, start |-> start, end |-> end]]

\* json.segments of the file whisper writes: at most two segments, the
\* i-th from second 2(i-1) to second 2i
WhisperSegment(i, text) ==
  [start |-> 2 * (i - 1), end |-> 2 * i, text |-> text,
   words |-> RecognisedWords(text, 2 * (i - 1), 2 * i)]

WhisperOutputs ==
  { <<>> }
    \cup { <<WhisperSegment(1, t)>> : t \in RawTexts }
    \cup { <<WhisperSegment(1, t[1]), WhisperSegment(2, t[2])>> :
             t \in RawTexts \X RawTexts }

\* the customWords arrays detect requests carry
CustomWordLists == { <<>>, <<"Heck">>, <<"hello", "Damn">> }

\* what @tekdi/multilingual-profanity-filter may change: the package is not
\* part of the program, so which words it rewrites is open
FilterChoices == SUBSET {"hello", "Damn", "damn"}

\* the words of englishProfanity and hindiProfanity that are among Tokens
BuiltInProfanity == {"damn"}

RECURSIVE TrimStart(_)
TrimStart(text) ==
  IF text # <<>> /\ Head(text) = Space THEN TrimStart(Tail(text)) ELSE text

RECURSIVE TrimEnd(_)
TrimEnd(text) ==
  IF text # <<>> /\ text[Len(text)] = Space
    THEN TrimEnd(SubSeq(text, 1, Len(text) - 1))
    ELSE text

\* String.prototype.trim
Trim(text) == TrimEnd(TrimStart(text))

\* text.split(' ') with `cur` the characters read since the last space
RECURSIVE SplitFrom(_, _)
SplitFrom(text, cur) ==
  IF text = <<>> THEN <<cur>>
  ELSE IF Head(text) = Space THEN <<cur>> \o SplitFrom(Tail(text), "")
  ELSE SplitFrom(Tail(text), Head(text))

Split(text) == SplitFrom(text, "")

\* mutant: every entry numbered 1
ParseWhisperJsonUnnumbered(segments) ==
  [i \in 1..Len(segments) |->
     [index |-> 1,
      start |-> segments[i].start,
      end |-> segments[i].end,
      text |-> Trim(segments[i].text),
      startSeconds |-> segments[i].start,
      endSeconds |-> segments[i].end,
      words |-> [j \in 1..Len(segments[i].words) |->
                   [word |-> Trim(segments[i].words[j].word),
                    start |-> segments[i].words[j].start,
                    end |-> segments[i].words[j].end]]]]

\* the entries made of json.segments
ParseWhisperJson(segments) ==
  [i \in 1..Len(segments) |->
     [index |-> i,
      start |-> segments[i].start,
      end |-> segments[i].end,
      text |-> Trim(segments[i].text),
      startSeconds |-> segments[i].start,
      endSeconds |-> segments[i].end,
      words |-> [j \in 1..Len(segments[i].words) |->
                   [word |-> Trim(segments[i].words[j].word),
                    start |-> segments[i].words[j].start,
                    end |-> segments[i].words[j].end]]]]

\* mutant: the custom vocabulary left out
GetAllProfanityWordsOfRequest(customWords) ==
  BuiltInProfanity
    \cup {ToLowerCase(customWords[i]) : i \in 1..Len(customWords)}

GetAllProfanityWords(customWords) ==
  BuiltInProfanity
    \cup customProfanityList
    \cup {ToLowerCase(customWords[i]) : i \in 1..Len(customWords)}

\* filterBadWords(word, lang), `changed` being the words the filter rewrites
FilterBadWords(word, changed) == IF word \in changed THEN "***" ELSE word

IsProfane(word, allProfanity, changed) ==
  ToLowerCase(word) \in allProfanity \/ FilterBadWords(word, changed) # word

DetectedBy(word, changed) ==
  IF FilterBadWords(word, changed) # word THEN "filter" ELSE "list"

\* mutant: the words that are not profane left out
HighlightedWordsProfaneOnly(words, allProfanity, changed) ==
  SelectSeq([i \in 1..Len(words) |->
               [word |-> words[i], index |-> i - 1, isProfane |-> TRUE,
                detectedBy |-> DetectedBy(words[i], changed)]],
            LAMBDA hw : IsProfane(hw.word, allProfanity, changed))

\* the highlightedWords array of one entry
HighlightedWords(words, allProfanity, changed) ==
  [i \in 1..Len(words) |->
     IF IsProfane(words[i], allProfanity, changed)
       THEN [word |-> words[i], index |-> i - 1, isProfane |-> TRUE,
             detectedBy |-> DetectedBy(words[i], changed)]
       ELSE [word |-> words[i], index |-> i - 1, isProfane |-> FALSE]]

HasProfanity(highlightedWords) ==
  \E i \in 1..Len(highlightedWords) : highlightedWords[i].isProfane

RECURSIVE ProfaneTimestamps(_, _, _)
ProfaneTimestamps(entries, allProfanity, changed) ==
  IF entries = <<>> THEN <<>>
  ELSE LET entry == Head(entries)
           highlightedWords ==
             HighlightedWords(Split(entry.text), allProfanity, changed)
           rest == ProfaneTimestamps(Tail(entries), allProfanity, changed)
       IN  IF HasProfanity(highlightedWords)
             THEN <<[start |-> entry.startSeconds,
                     end |-> entry.endSeconds,
                     text |-> entry.text,
                     highlightedWords |-> highlightedWords,
                     index |-> entry.index]>> \o rest
             ELSE rest

RECURSIVE DetectedWords(_, _, _)
DetectedWords(entries, allProfanity, changed) ==
  IF entries = <<>> THEN <<>>
  ELSE LET entry == Head(entries)
           words == Split(entry.text)
           profane ==
             SelectSeq(words,
                       LAMBDA w : IsProfane(w, allProfanity, changed))
       IN  [i \in 1..Len(profane) |->
              [word |-> profane[i], timestamp |-> entry.start,
               sentence |-> entry.text]]
             \o DetectedWords(Tail(entries), allProfanity, changed)

FindProfanityTimestamps(entries, changed, customWords) ==
  [segments |->
     ProfaneTimestamps(entries, GetAllProfanityWords(customWords), changed),
   detectedWords |->
     DetectedWords(entries, GetAllProfanityWords(customWords), changed)]

\* the request arrives; audio extraction and whisper are started
DetectBegin(lists) ==
  /\ detectReq.pc = "idle"
  /\ \E customWords \in lists :
       detectReq' = [IdleDetect EXCEPT !.pc = "transcribing",
                                       !.customWords = customWords]
  /\ UNCHANGED <<store, customProfanityList, disk, requests, others,
                 page, srt>>

\* whisper has written its json: parse it, scan it, answer
DetectOk(outputs, choices) ==
  /\ detectReq.pc = "transcribing"
  /\ \E segments \in outputs, changed \in choices :
       detectReq' =
         [detectReq EXCEPT
            !.pc = "idle",
            !.status = 200,
            !.changed = changed,
            !.segments = segments,
            !.transcript = ParseWhisperJson(segments),
            !.profanityData =
              FindProfanityTimestamps(ParseWhisperJson(segments), changed,
                                      detectReq.customWords)]
  /\ UNCHANGED <<store, customProfanityList, disk, requests, others,
                 page, srt>>

\* mkdir, ffmpeg, whisper or the reading of the json failed
DetectFail ==
  /\ detectReq.pc = "transcribing"
  /\ detectReq' = [detectReq EXCEPT !.pc = "idle", !.status = 500]
  /\ UNCHANGED <<store, customProfanityList, disk, requests, others,
                 page, srt>>

(* ------------------ frontend: handleMuteAndProcess -------------------- *)
\* the reports the page may show: what findProfanityTimestamps makes of the
\* transcripts with "heck" as a custom word and one choice of the filter
Reports ==
  { ProfaneTimestamps(ParseWhisperJson(segments),
                      BuiltInProfanity \cup {"heck"}, changed) :
      segments \in WhisperOutputs, changed \in { {}, {"hello"} } }

\* the words the user may have picked in the transcript
Selections ==
  { <<>>, <<"damn">>, <<"heck">>, <<"hello">>, <<"Damn">>,
    <<"heck", "damn">> }

\* selectedWords.includes(word)
Includes(selectedWords, word) ==
  \E i \in 1..Len(selectedWords) : selectedWords[i] = word

\* profanityData.filter(...).map(s => ({start: s.start, end: s.end}))
SegmentsToMute(profanityData, selectedWords) ==
  LET kept ==
        SelectSeq(profanityData,
                  LAMBDA segment :
                    \E i \in 1..Len(segment.highlightedWords) :
                       /\ segment.highlightedWords[i].isProfane
                       /\ Includes(selectedWords,
                            ToLowerCase(segment.highlightedWords[i].word)))
  IN  [k \in 1..Len(kept) |-> [start |-> kept[k].start, end |-> kept[k].end]]

\* the page with a report shown and words picked; ready tells whether a
\* file and a session are there
PagesShown ==
  { [IdlePage EXCEPT !.pc = "shown", !.ready = ready,
                     !.profanityData = report, !.selectedWords = words] :
      ready \in BOOLEAN, report \in Reports, words \in Selections }

\* the filter and the call of removeAudioFromSegments
SendSegments ==
  page' = [page EXCEPT
             !.pc = "muting",
             !.segments = SegmentsToMute(page.profanityData,
                                         page.selectedWords)]

\* the button is pressed: nothing without a file and a session; with words
\* picked, they are posted to the custom list first
MuteAndProcess ==
  /\ page.pc = "shown"
  /\ IF ~ page.ready THEN page' = [page EXCEPT !.pc = "done"]
     ELSE IF Len(page.selectedWords) > 0
       THEN page' = [page EXCEPT !.pc = "adding"]
       ELSE SendSegments
  /\ UNCHANGED <<store, customProfanityList, disk, requests, others,
                 detectReq, srt>>

\* POST /api/custom-profanity/add answered: the words are in the list
WordsAdded ==
  /\ page.pc = "adding"
  /\ customProfanityList' =
       customProfanityList
         \cup {ToLowerCase(page.selectedWords[i]) :
                 i \in 1..Len(page.selectedWords)}
  /\ SendSegments
  /\ UNCHANGED <<store, disk, requests, others, detectReq, srt>>

\* the post failed: the error is logged and the handler goes on
WordsNotAdded ==
  /\ page.pc = "adding"
  /\ SendSegments
  /\ UNCHANGED <<store, customProfanityList, disk, requests, others,
                 detectReq, srt>>

\* removeAudioFromSegments resolved or rejected
MuteAnswered ==
  /\ page.pc = "muting"
  /\ page' = [page EXCEPT !.pc = "done"]
  /\ UNCHANGED <<store, customProfanityList, disk, requests, others,
                 detectReq, srt>>

(* --------------------- srtTimeToSeconds and parseSRT ------------------ *)
\* A string is the sequence of its characters; a subtitle text is the
\* sequence of its lines, as srt.split('\n') gives them.

\* the value of a variable that was given nothing
Undefined == <<"undefined">>

\* the outcome of a call that throws a TypeError
TypeError == -2

TwoDigits == { <<"0", "0">>, <<"0", "1">>, <<"0", "2">>, <<"0", "8">>,
               <<"5", "9">> }

ThreeDigits == { <<"0", "0", "0">>, <<"5", "0", "0">>, <<"0", "0", "5">>,
                 <<"9", "9", "9">> }

\* HH:MM:SS,mmm
TimeString(h, m, sec, ms) == h \o <<":">> \o m \o <<":">> \o sec \o <<",">> \o ms

TimeStrings ==
  { TimeString(h, m, sec, ms) :
      h \in {<<"0", "0">>, <<"0", "1">>, <<"1", "0">>},
      m \in TwoDigits, sec \in TwoDigits, ms \in ThreeDigits }

\* str.split(sep) for a separator that is not empty, `cur` being the
\* characters read since the last separator
RECURSIVE SplitOnFrom(_, _, _)
SplitOnFrom(str, sep, cur) ==
  IF str = <<>> THEN <<cur>>
  ELSE IF Len(str) >= Len(sep) /\ SubSeq(str, 1, Len(sep)) = sep
    THEN <<cur>> \o SplitOnFrom(SubSeq(str, Len(sep) + 1, Len(str)), sep, <<>>)
    ELSE SplitOnFrom(Tail(str), sep, Append(cur, Head(str)))

SplitOn(str, sep) == SplitOnFrom(str, sep, <<>>)

\* array[i - 1] of JavaScript: undefined past the end
At(array, i) == IF i \in 1..Len(array) THEN array[i] ELSE Undefined

\* parseInt of a string or of undefined
ParseIntOf(str) == IF str = Undefined THEN NaN ELSE ParseInt(str)

\* mutant: the milliseconds left out
SrtTimeToSecondsWhole(srtTime) ==
  IF srtTime = Undefined THEN TypeError
  ELSE LET parts == SplitOn(srtTime, <<":">>)
           rest == At(parts, 3)
       IN  IF rest = Undefined THEN TypeError
           ELSE 1000 * (ParseIntOf(At(parts, 1)) * 3600
                          + ParseIntOf(At(parts, 2)) * 60
                          + ParseIntOf(At(SplitOn(rest, <<",">>), 1)))

\* srtTimeToSeconds, the result in thousandths of a second: NaN when a part
\* is not a number, TypeError when split is called on undefined
SrtTimeToSeconds(srtTime) ==
  IF srtTime = Undefined THEN TypeError
  ELSE LET parts == SplitOn(srtTime, <<":">>)
           h == At(parts, 1)
           m == At(parts, 2)
           rest == At(parts, 3)
       IN  IF rest = Undefined THEN TypeError
           ELSE LET s == At(SplitOn(rest, <<",">>), 1)
                    ms == At(SplitOn(rest, <<",">>), 2)
                IN  IF NaN \in {ParseIntOf(h), ParseIntOf(m), ParseIntOf(s),
                                ParseIntOf(ms)}
                      THEN NaN
                      ELSE 1000 * (ParseIntOf(h) * 3600 + ParseIntOf(m) * 60
                                     + ParseIntOf(s))
                             + ParseIntOf(ms)

\* /^\d+$/.test(line)
IsNumber(line) ==
  /\ line # Undefined
  /\ Len(line) > 0
  /\ \A i \in 1..Len(line) : line[i] \in Digits

\* a value in a condition: undefined and the empty string count as false
Truthy(str) == str # Undefined /\ str # <<>>

Arrow == <<" ", "-", "-", ">", " ">>

TimeLine ==
  TimeString(<<"0", "0">>, <<"0", "0">>, <<"0", "1">>, <<"0", "0", "0">>)
    \o Arrow
    \o TimeString(<<"0", "0">>, <<"0", "1">>, <<"0", "2">>, <<"5", "0", "0">>)

\* the text line of block n
TextLine(n) == <<"t">> \o DigitString(n)

\* the blocks of a subtitle text: complete; the text line missing; the
\* time-range line missing; the time-range line without arrow and times
BlockKinds == {"good", "noText", "noTime", "badTime"}

\* the last block cut off after its number or after its time-range line
Endings == {"none", "number", "time"}

\* the lines of block n, the empty line after it included
BlockLines(kind, n) ==
  CASE kind = "good" -> <<DigitString(n), TimeLine, TextLine(n), <<>>>>
    [] kind = "noText" -> <<DigitString(n), TimeLine, <<>>>>
    [] kind = "noTime" -> <<DigitString(n), TextLine(n), <<>>>>
    [] kind = "badTime" ->
         <<DigitString(n), <<"0", "0", ":", "0", "1">>, TextLine(n), <<>>>>
    [] kind = "number" -> <<DigitString(n)>>
    [] kind = "time" -> <<DigitString(n), TimeLine>>
    [] kind = "none" -> <<>>

RECURSIVE LinesOf(_, _)
LinesOf(blocks, n) ==
  IF blocks = <<>> THEN <<>>
  ELSE BlockLines(Head(blocks), n) \o LinesOf(Tail(blocks), n + 1)

\* the subtitle texts read: up to MaxBlocks blocks and an ending
SubtitleBlocks ==
  { Append(blocks, ending) :
      blocks \in UNION { [1..n -> BlockKinds] : n \in 1..MaxBlocks },
      ending \in Endings }

\* the result of a parse that threw
Thrown == [threw |-> TRUE, entries |-> <<>>]

\* parseSRT of the session variant from line i on (i counts from 1)
RECURSIVE ParseSRTFrom(_, _, _)
ParseSRTFrom(lines, i, entries) ==
  IF i > Len(lines) THEN [threw |-> FALSE, entries |-> entries]
  ELSE IF IsNumber(lines[i])
    THEN LET timestamp == At(lines, i + 1)
             text == At(lines, i + 2)
             start == At(SplitOn(timestamp, Arrow), 1)
             end == At(SplitOn(timestamp, Arrow), 2)
         IN  IF Truthy(timestamp) /\ Truthy(text)
               THEN IF TypeError \in {SrtTimeToSeconds(start),
                                      SrtTimeToSeconds(end)}
                      THEN Thrown
                      ELSE ParseSRTFrom(lines, i + 4,
                             Append(entries,
                                    [index |-> ParseInt(lines[i]),
                                     start |-> start,
                                     end |-> end,
                                     text |-> text,
                                     startSeconds |-> SrtTimeToSeconds(start),
                                     endSeconds |-> SrtTimeToSeconds(end)]))
               ELSE ParseSRTFrom(lines, i + 4, entries)
    ELSE ParseSRTFrom(lines, i + 1, entries)

ParseSRT(lines) == ParseSRTFrom(lines, 1, <<>>)

\* parseSRT of the first variant: no test of timestamp and text, split
\* called on what lines[i + 1] is
RECURSIVE ParseSRTFirstFrom(_, _, _)
ParseSRTFirstFrom(lines, i, entries) ==
  IF i > Len(lines) THEN [threw |-> FALSE, entries |-> entries]
  ELSE IF IsNumber(lines[i])
    THEN LET timestamp == At(lines, i + 1)
             text == At(lines, i + 2)
         IN  IF timestamp = Undefined THEN Thrown
             ELSE ParseSRTFirstFrom(lines, i + 4,
                    Append(entries,
                           [start |-> At(SplitOn(timestamp, Arrow), 1),
                            end |-> At(SplitOn(timestamp, Arrow), 2),
                            text |-> text]))
    ELSE ParseSRTFirstFrom(lines, i + 1, entries)

ParseSRTFirst(lines) == ParseSRTFirstFrom(lines, 1, <<>>)

\* srtTimeToSeconds is called on the time string
ConvertTime ==
  /\ srt.pc = "time"
  /\ srt' = [srt EXCEPT !.pc = "converted",
                        !.seconds = SrtTimeToSeconds(srt.time)]
  /\ UNCHANGED <<store, customProfanityList, disk, requests, others,
                 detectReq, page>>

\* parseSRT of the session variant is called on the subtitle text
ReadSRT ==
  /\ srt.pc = "text"
  /\ srt' = [srt EXCEPT !.pc = "parsed",
                        !.threw = ParseSRT(srt.lines).threw,
                        !.entries = ParseSRT(srt.lines).entries]
  /\ UNCHANGED <<store, customProfanityList, disk, requests, others,
                 detectReq, page>>

\* parseSRT of the first variant is called on the subtitle text
ReadSRTFirst ==
  /\ srt.pc = "text"
  /\ srt' = [srt EXCEPT !.pc = "parsedFirst",
                        !.threw = ParseSRTFirst(srt.lines).threw,
                        !.entries = ParseSRTFirst(srt.lines).entries]
  /\ UNCHANGED <<store, customProfanityList, disk, requests, others,
                 detectReq, page>>

(* ----------------------- DELETE /api/session/:sessionId --------------- *)
\* the `history` array the handler holds: the array of the map, or the
\* fresh [] of `|| []`, which nobody else ever sees
HeldHistory(d) == IF d.histLive THEN editHistory[d.sessionId] ELSE <<>>

HeldVideos(d) ==
  IF d.session = NoSession THEN <<>> ELSE sessionObj[d.session].videos

\* the file the loop is awaiting the unlink of
UnlinkTarget(d) ==
  IF d.phase = "videos" THEN HeldVideos(d)[d.i].path
  ELSE ProcessedPath(HeldHistory(d)[d.i].filename)

\* where the two for-of loops stop next, having dealt with position
\* (phase, i); "end" when both are exhausted.  The arrays are read as they
\* are now: for-of sees elements pushed during the iteration.
NextStop(d) ==
  IF d.phase = "videos" /\ d.i < Len(HeldVideos(d))
  THEN [d EXCEPT !.i = d.i + 1]
  ELSE IF d.phase = "videos"
  THEN IF Len(HeldHistory(d)) > 0
       THEN [d EXCEPT !.phase = "history", !.i = 1]
       ELSE [d EXCEPT !.phase = "end"]
  ELSE IF d.i < Len(HeldHistory(d))
  THEN [d EXCEPT !.i = d.i + 1]
  ELSE [d EXCEPT !.phase = "end"]

\* the two maps as one value
Maps == [videoSessions |-> videoSessions, editHistory |-> editHistory]

\* videoSessions.delete(sessionId); editHistory.delete(sessionId)
DestroyedMaps(maps, sessionId) ==
  [videoSessions |-> maps.videoSessions \ {sessionId},
   editHistory |->
     [j \in DOMAIN maps.editHistory \ {sessionId} |-> maps.editHistory[j]]]

\* mutant: a session that is not in the map answered as an error
DestroyStatusNotFound(session) == IF session = NoSession THEN 404 ELSE 200

\* res.json({ success: true }), whatever videoSessions.get returned
DestroyStatus(session) == 200

\* the answer of the delete request d; named tells whether the id the
\* request named is kept next to the answer
DestroyAnswer(d, named) ==
  [IdleDestroy EXCEPT
     !.sessionId = IF named THEN d.sessionId ELSE UnknownSession,
     !.status = DestroyStatus(d.session)]

\* run the handler from d until its next await, or to its end:
\* videoSessions.delete, editHistory.delete, res.json
RunDestroy(d, named) ==
  LET stop == NextStop(d) IN
  IF stop.phase = "end"
  THEN /\ videoSessions' = DestroyedMaps(Maps, d.sessionId).videoSessions
       /\ editHistory' = DestroyedMaps(Maps, d.sessionId).editHistory
       /\ destroyReq' = DestroyAnswer(d, named)
  ELSE /\ destroyReq' = [stop EXCEPT !.pc = "unlinking"]
       /\ UNCHANGED <<videoSessions, editHistory>>

DestroyBegin(named) ==
  /\ destroyReq.pc = "idle"
  /\ \E sessionId \in DOMAIN sessionObj \cup {UnknownSession} :
       RunDestroy([IdleDestroy EXCEPT
                     !.sessionId = sessionId,
                     !.session = GetSession(sessionId),
                     !.histLive = sessionId \in DOMAIN editHistory,
                     !.phase = "videos"], named)
  /\ UNCHANGED <<aside, sessionObj, customProfanityList, disk, requests, uploaded,
                 uploadReq>>

\* an awaited fs.unlink(...).catch(() => {}) is over
DestroyStep(named) ==
  /\ destroyReq.pc = "unlinking"
  /\ disk' = Unlink(disk, UnlinkTarget(destroyReq))
  /\ RunDestroy(destroyReq, named)
  /\ UNCHANGED <<aside, sessionObj, customProfanityList, requests, uploaded,
                 uploadReq>>

(* --------------------------- specification ---------------------------- *)
\* The version store under concurrent edit requests: every edit handler,
\* session creation and deletion, and the registration of sources.  Edits
\* name the file f1; sources are registered one file per request.
EditKinds == {"profanity", "audio", "trim"}

Bodies == [kind \in EditKinds |-> BodiesOf(kind)]

Next ==
  \/ CreateSession
  \/ UploadMultiple({ <<"f1">> })
  \/ ProbeOk
  \/ ProbeFail
  \/ \E r \in RequestIds : StartEdit(r, EditKinds, {"f1"}, Bodies)
  \/ \E r \in RequestIds : StartMulti(r, MultiBodies)
  \/ \E r \in RequestIds : TranscribeOk(r)
  \/ \E r \in RequestIds : TranscribeFail(r)
  \/ \E r \in RequestIds : ExecOk(r)
  \/ \E r \in RequestIds : ExecFail(r)
  \/ \E r \in RequestIds : RespondProfanity(r)
  \/ DestroyBegin(FALSE)
  \/ DestroyStep(FALSE)

Spec == Init /\ [][Next]_vars

(* ------------------- specification of the edit requests --------------- *)
\* ranges a client may send besides R1 and R2: one that starts before 0,
\* one that ends before it starts, one that overlaps both R1 and R2
RNeg == [start |-> -1, end |-> 2]
RRev == [start |-> 4, end |-> 1]
ROver == [start |-> 1, end |-> 4]

EditTrimBodies ==
  { [EmptyBody EXCEPT !.segments = <<R1>>],
    [EmptyBody EXCEPT !.segments = <<R2, R1>>, !.joinSegments = TRUE],
    [EmptyBody EXCEPT !.segments = <<R1, R1>>, !.joinSegments = TRUE],
    [EmptyBody EXCEPT !.segments = <<R1>>, !.joinSegments = TRUE],
    [EmptyBody EXCEPT !.segments = <<R1, R2>>],
    [EmptyBody EXCEPT !.segments = <<RRev>>],
    EmptyBody }

EditAudioBodies ==
  { EmptyBody,
    [EmptyBody EXCEPT !.segments = <<R1>>],
    [EmptyBody EXCEPT !.segments = <<R1, R1>>],
    [EmptyBody EXCEPT !.segments = <<ROver, R1>>],
    [EmptyBody EXCEPT !.segments = <<RNeg>>] }

EditProfanityBodies ==
  { EmptyBody,
    [EmptyBody EXCEPT !.segments = <<R1>>],
    [EmptyBody EXCEPT !.segments = <<R2, ROver>>] }

EditBodies ==
  [kind \in EditKinds |->
     CASE kind = "trim" -> EditTrimBodies
       [] kind = "audio" -> EditAudioBodies
       [] kind = "profanity" -> EditProfanityBodies]

EditMultiBodies ==
  { EmptyBody,
    [EmptyBody EXCEPT
       !.videoSegments = <<[videoId |-> "f1", segments |-> <<R2, R1>>]>>],
    [EmptyBody EXCEPT
       !.videoSegments = <<[videoId |-> "f1", segments |-> <<>>]>>],
    [EmptyBody EXCEPT
       !.videoSegments = <<[videoId |-> "f1", segments |-> <<R1, RRev>>]>>],
    [EmptyBody EXCEPT
       !.videoSegments = <<[videoId |-> "f1", segments |-> <<RNeg>>]>>] }

\* the state after POST /api/session/create and an upload-multiple of f1
\* into the new session
InitReady ==
  /\ videoSessions = {1}
  /\ sessionObj = <<[videos |-> <<FileInfo("f1")>>, currentVersion |-> 0]>>
  /\ editHistory = << <<>> >>
  /\ customProfanityList = {}
  /\ disk = StoreFiles(<<>>, <<"f1">>)
  /\ requests = [r \in RequestIds |-> IdleRequest]
  /\ uploaded = {"f1"}
  /\ uploadReq = IdleUpload
  /\ destroyReq = IdleDestroy
  /\ detectReq = IdleDetect
  /\ page = IdlePage
  /\ srt = IdleSrt

\* The edit handlers alone, on one session, with request bodies of every
\* shape: valid and invalid trim configurations, empty, repeated,
\* overlapping and ill-formed ranges.
NextEdits ==
  \/ \E r \in RequestIds : StartEdit(r, EditKinds, {"f1"}, EditBodies)
  \/ \E r \in RequestIds : StartMulti(r, EditMultiBodies)
  \/ \E r \in RequestIds : TranscribeOk(r)
  \/ \E r \in RequestIds : TranscribeFail(r)
  \/ \E r \in RequestIds : ExecOk(r)
  \/ \E r \in RequestIds : ExecFail(r)
  \/ \E r \in RequestIds : RespondProfanity(r)

SpecEdits == InitReady /\ [][NextEdits]_vars

(* ------------------- specification of the registrations --------------- *)
\* Sessions are created and deleted while upload-multiple requests of no,
\* one or two files register their files.
NextUpload ==
  \/ CreateSession
  \/ UploadMultiple(FileBatches \cup { <<>> })
  \/ ProbeOk
  \/ ProbeFail
  \/ DestroyBegin(FALSE)
  \/ DestroyStep(FALSE)

SpecUpload == Init /\ [][NextUpload]_vars

(* --------------------- specification of detection --------------------- *)
\* Detect requests, one at a time, while words are added to the custom
\* vocabulary.
NextDetect ==
  \/ AddCustomWords
  \/ DetectBegin(CustomWordLists)
  \/ DetectOk(WhisperOutputs, FilterChoices)
  \/ DetectFail

SpecDetect == Init /\ [][NextDetect]_vars

(* ------------------ specification of the word selection -------------- *)
\* One press of the mute button on a page showing any of the reports with
\* any of the selections.
InitSelect ==
  /\ InitServer
  /\ page \in PagesShown
  /\ srt = IdleSrt

NextSelect ==
  \/ MuteAndProcess
  \/ WordsAdded
  \/ WordsNotAdded
  \/ MuteAnswered

SpecSelect == InitSelect /\ [][NextSelect]_vars

(* ------------------- specification of the subtitle code -------------- *)
\* A time string is converted, or a subtitle text is parsed by one of the
\* two variants of parseSRT.
InitSrt ==
  /\ InitServer
  /\ page = IdlePage
  /\ srt \in { [IdleSrt EXCEPT !.pc = "time", !.time = t] : t \in TimeStrings }
              \cup { [IdleSrt EXCEPT !.pc = "text", !.blocks = b,
                                     !.lines = LinesOf(b, 1)] :
                       b \in SubtitleBlocks }

NextSrt ==
  \/ ConvertTime
  \/ ReadSRT
  \/ ReadSRTFirst

SpecSrt == InitSrt /\ [][NextSrt]_vars

(* ------------------ specification of the vocabulary ------------------- *)
\* the apply-mute request that picks a word outside the built-in lists
VocabularyBodies ==
  [kind \in {"profanity"} |->
     { [EmptyBody EXCEPT !.selectedWords = <<"Heck">>] }]

\* the transcripts of the detect requests: one with the picked word, one
\* with a built-in word
VocabularyOutputs ==
  { <<WhisperSegment(1, <<Space, "hello", Space, Space, "heck">>)>>,
    <<WhisperSegment(1, <<Space, "hello">>),
      WhisperSegment(2, <<Space, "Damn", Space, "hello">>)>> }

\* Words reach the custom vocabulary by the add request and by apply-mute
\* requests of two sessions, sessions are deleted, and detect requests
\* without words of their own are answered in between.
NextVocabulary ==
  \/ CreateSession
  \/ AddCustomWords
  \/ \E r \in RequestIds : StartEdit(r, {"profanity"}, {"f1"}, VocabularyBodies)
  \/ \E r \in RequestIds : TranscribeOk(r)
  \/ \E r \in RequestIds : TranscribeFail(r)
  \/ \E r \in RequestIds : ExecOk(r)
  \/ \E r \in RequestIds : ExecFail(r)
  \/ \E r \in RequestIds : RespondProfanity(r)
  \/ DetectBegin({ <<>> })
  \/ DetectOk(VocabularyOutputs, { {} })
  \/ DetectFail
  \/ DestroyBegin(FALSE)
  \/ DestroyStep(FALSE)

SpecVocabulary == InitReady /\ [][NextVocabulary]_vars

(* -------------------- specification of the isolation ------------------ *)
\* Two sessions with uploads, audio-remove, trim and join requests and
\* deletes; the answer of a delete keeps the id the request named.
NextIsolation ==
  \/ CreateSession
  \/ UploadMultiple({ <<"f1">> })
  \/ ProbeOk
  \/ ProbeFail
  \/ \E r \in RequestIds : StartEdit(r, {"audio", "trim"}, {"f1"}, Bodies)
  \/ \E r \in RequestIds : StartMulti(r, MultiBodies)
  \/ \E r \in RequestIds : ExecOk(r)
  \/ \E r \in RequestIds : ExecFail(r)
  \/ DestroyBegin(TRUE)
  \/ DestroyStep(TRUE)

SpecIsolation == Init /\ [][NextIsolation]_vars

(* -------------------- specification of the responses ------------------ *)
\* Edit requests on a session holding f1 and on one created later; f2 is a file id that is not in
\* uploads/, so that a request naming it can only fail.  The transcriber
\* and the executor signal completion or failure of every process they were
\* given, and the event loop runs a continuation whose promise has settled.
NextLive ==
  \/ CreateSession
  \/ \E r \in RequestIds : StartEdit(r, EditKinds, {"f1", "f2"}, Bodies)
  \/ \E r \in RequestIds : StartMulti(r, MultiBodies)
  \/ \E r \in RequestIds : TranscribeOk(r)
  \/ \E r \in RequestIds : TranscribeFail(r)
  \/ \E r \in RequestIds : ExecOk(r)
  \/ \E r \in RequestIds : ExecFail(r)
  \/ \E r \in RequestIds : RespondProfanity(r)

Signalled(r) ==
  /\ WF_vars(TranscribeOk(r) \/ TranscribeFail(r))
  /\ WF_vars(ExecOk(r) \/ ExecFail(r))
  /\ WF_vars(RespondProfanity(r))

SpecLive ==
  InitReady /\ [][NextLive]_vars /\ \A r \in RequestIds : Signalled(r)

(* ============================ properties ============================== *)
Live == videoSessions

InFlight(r) == requests[r].pc \in {"transcribing", "executing", "readTranscript"}

IsPrefix(a, b) == Len(a) <= Len(b) /\ \A i \in 1..Len(a) : a[i] = b[i]

NumericSourceVersions == SourceVersions \ {Original}

\* C1: every entry of every history was appended by a request whose executor
\* reported success, and whatever a numeric sourceVersion resolves to now is
\* the file name of such an entry.
C1_RecordsOnlyFromSuccess ==
  /\ \A s \in DOMAIN editHistory : \A i \in 1..Len(editHistory[s]) :
        requests[editHistory[s][i].req].outcome = "ok"
  /\ \A s \in DOMAIN sessionObj : \A f \in FileIds :
        \A sv \in NumericSourceVersions :
          LET input == ResolveInput(s, f, sv) IN
          input.found =>
            \E i \in 1..Len(GetHistory(s)) :
               /\ input.path = ProcessedPath(editHistory[s][i].filename)
               /\ requests[editHistory[s][i].req].outcome = "ok"

\* a session holding a version while another request on it has failed
C1_Witness ==
  \E s \in Live : \E r \in RequestIds :
     /\ Len(editHistory[s]) >= 1
     /\ requests[r].sessionId = s
     /\ requests[r].outcome = "fail"
     /\ ResolveInput(s, "f1", <<"1">>).found

\* C2: on a live session, a sourceVersion that reads as the version number
\* of an entry resolves to exactly that entry's file, whatever else the
\* history holds; and a running request that resolved a numeric
\* sourceVersion holds the file of the entry with that number.
C2_RoundTrip ==
  /\ \A s \in Live : \A i \in 1..Len(editHistory[s]) :
        \A sv \in NumericSourceVersions : \A f \in FileIds :
          ParseInt(sv) = editHistory[s][i].version =>
            ResolveInput(s, f, sv) =
              [found |-> TRUE,
               path |-> ProcessedPath(editHistory[s][i].filename)]
  /\ \A r \in RequestIds :
        (InFlight(r) /\ requests[r].sourceVersion # Original
           /\ requests[r].kind # "multi" /\ requests[r].sessionId \in Live)
          => \E i \in 1..Len(editHistory[requests[r].sessionId]) :
                /\ editHistory[requests[r].sessionId][i].version
                     = ParseInt(requests[r].sourceVersion)
                /\ requests[r].inputPath =
                     ProcessedPath(
                       editHistory[requests[r].sessionId][i].filename)

\* version 1 has been appended, a later request derived version 2 from it,
\* and 1 still resolves to the first entry's file, not the second's
C2_Witness ==
  \E s \in Live :
     /\ Len(editHistory[s]) = 2
     /\ editHistory[s][2].sourceVersion = <<"1">>
     /\ editHistory[s][1].filename # editHistory[s][2].filename
     /\ ResolveInput(s, "f1", <<"1">>).path
          = ProcessedPath(editHistory[s][1].filename)

\* C3: the version number in a successful response is the version number of
\* the entry this request appended.
C3_ResponseVersionIsAppended ==
  \A r \in RequestIds :
     (requests[r].pc = "done" /\ requests[r].status = 200)
       => requests[r].version = requests[r].appended

\* C4: for every live session the i-th entry has version i and the counter
\* equals the length of the history.
C4_VersionsContiguous ==
  \A s \in Live :
     /\ s \in DOMAIN editHistory
     /\ sessionObj[s].currentVersion = Len(editHistory[s])
     /\ \A i \in 1..Len(editHistory[s]) : editHistory[s][i].version = i

\* two requests that both read the counter at 0 have both appended
C4_Witness ==
  \E s \in Live :
     /\ Len(editHistory[s]) = 2
     /\ editHistory[s][1].filename.v = 1
     /\ editHistory[s][2].filename.v = 1
     /\ sessionObj[s].currentVersion = 2

\* requests r1, r2 ran on the fresh live session s at the same time, both
\* with sourceVersion 'original', and both succeeded
Siblings(s, r1, r2) ==
  /\ r1 # r2
  /\ s \in Live
  /\ \A r \in {r1, r2} :
       /\ requests[r].pc = "done"
       /\ requests[r].status = 200
       /\ requests[r].sessionId = s
       /\ requests[r].kind # "multi"
       /\ requests[r].sourceVersion = Original
       /\ requests[r].outputPath.v = 1

\* C5: two overlapping successful operations with sourceVersion 'original'
\* leave one entry each, at different positions whose version numbers are
\* the positions (1 and 2 when nothing else was appended), both recording
\* 'original'.
C5_SiblingVersions ==
  \A s \in DOMAIN sessionObj : \A r1 \in RequestIds : \A r2 \in RequestIds :
     Siblings(s, r1, r2) =>
       \E i \in 1..Len(editHistory[s]) : \E j \in 1..Len(editHistory[s]) :
          /\ i # j
          /\ editHistory[s][i].req = r1 /\ editHistory[s][j].req = r2
          /\ editHistory[s][i].version = i /\ editHistory[s][j].version = j
          /\ editHistory[s][i].sourceVersion = Original
          /\ editHistory[s][j].sourceVersion = Original
          /\ Len(editHistory[s]) = 2 => {i, j} = {1, 2}
          /\ Cardinality({k \in 1..Len(editHistory[s]) :
                            editHistory[s][k].req \in {r1, r2}}) = 2

C5_Witness ==
  \E s \in Live : \E r1 \in RequestIds : \E r2 \in RequestIds :
     Siblings(s, r1, r2)

\* C6: a step of a request other than the one in which its executor reports
\* success changes no session counter and no history; in particular the
\* step in which the executor reports failure.
C6_FailureAppendsNothing ==
  [][\A r \in RequestIds :
       (requests'[r] # requests[r]
          /\ ~(requests[r].outcome = "none" /\ requests'[r].outcome = "ok"))
         => UNCHANGED <<sessionObj, editHistory>>]_vars

\* an executor failure on a live session that already holds a version
C6_Witness ==
  \E r \in RequestIds :
     /\ requests[r].outcome = "fail"
     /\ requests[r].status = 500
     /\ requests[r].sessionId \in Live
     /\ Len(editHistory[requests[r].sessionId]) = 1
     /\ sessionObj[requests[r].sessionId].currentVersion = 1

\* C7: no entry names an output file whose last write was a failed
\* operation's partial output.
C7_NoEntryNamesPartialOutput ==
  \A s \in DOMAIN editHistory : \A i \in 1..Len(editHistory[s]) :
     LET p == ProcessedPath(editHistory[s][i].filename) IN
     Exists(p) => disk[p].complete

C10_AppendOnly ==
  [][\A s \in DOMAIN editHistory :
       IF s \in DOMAIN editHistory'
       THEN IsPrefix(editHistory[s], editHistory'[s])
       ELSE s \notin videoSessions']_vars

\* a history that was extended after its first entry
C10_Witness ==
  \E s \in Live :
     /\ Len(editHistory[s]) = 2
     /\ editHistory[s][1].type = "trim"
     /\ editHistory[s][2].type = "audio_removal"

(* ------------------ GET /api/session/:sessionId/history --------------- *)
\* The handler has no await: its answer is a function of the two maps.
HistoryResponse(sessionId) ==
  LET history == GetHistory(sessionId) IN
  IF GetSession(sessionId) = NoSession
  THEN [status |-> 404, history |-> <<>>, availableVersions |-> <<>>]
  ELSE [status |-> 200, history |-> history,
        availableVersions |->
          <<Original>> \o
            [i \in 1..Len(history) |-> DigitString(history[i].version)]]

\* the request names a session that is no key of the map, or a numeric
\* version that no entry of the session's history carries
NamesMissing(req) ==
  \/ GetSession(req.sessionId) = NoSession
  \/ /\ req.kind # "multi"
     /\ req.sourceVersion # Original
     /\ FindVersion(GetHistory(req.sessionId),
                    ParseInt(req.sourceVersion), 1) = 0

\* C11: an edit request that arrives naming a session or a numeric version
\* that is not in the store is answered 404 in its first stretch, nothing is
\* dispatched, and the maps, the files and the word list stay as they were.
C11_MissingIsNotFound ==
  [][\A r \in RequestIds :
       (requests[r].pc = "idle" /\ requests'[r].pc # "idle"
          /\ NamesMissing(requests'[r]))
         => /\ requests'[r].pc = "done"
            /\ requests'[r].status = 404
            /\ UNCHANGED <<store, disk, customProfanityList>>]_vars

\* the sessions that were created and have since been deleted from the map
Destroyed == DOMAIN sessionObj \ videoSessions

\* C12: an edit request that arrived after its session was destroyed has
\* been answered 404 without dispatching or appending anything, and the
\* history request on a destroyed session is answered 404.
C12_DestroyedIsNotFound ==
  /\ \A r \in RequestIds :
        (requests[r].pc = "done" /\ requests[r].kind # "none"
           /\ requests[r].sessionId \in DOMAIN sessionObj
           /\ requests[r].session = NoSession)
          => /\ requests[r].status = 404
             /\ requests[r].outcome = "none"
             /\ requests[r].appended = 0
  /\ \A s \in Destroyed : HistoryResponse(s).status = 404

Quiescent(s) ==
  /\ s \in Destroyed
  /\ ~(destroyReq.pc = "unlinking" /\ destroyReq.sessionId = s)
  /\ uploadReq.session # s
  /\ \A r \in RequestIds : requests[r].sessionId = s => requests[r].pc = "done"

\* C14: once a session is destroyed and nothing runs on it any more, none
\* of its registered source files exists and no output path of a request
\* on it exists (paths that a request on another session also wrote to are
\* left out of the statement).
C14_NothingLeftBehind ==
  \A s \in DOMAIN sessionObj :
     Quiescent(s) =>
       /\ \A i \in 1..Len(sessionObj[s].videos) :
             ~Exists(sessionObj[s].videos[i].path)
       /\ \A r \in RequestIds :
             (requests[r].sessionId = s
                /\ \A q \in RequestIds :
                      requests[q].outputPath = requests[r].outputPath
                        => requests[q].sessionId = s)
               => ~Exists(requests[r].outputPath)

\* the two shapes of a trim request the specification accepts
TrimShapeValid(body) ==
  \/ Len(body.segments) = 1 /\ ~body.joinSegments
  \/ Len(body.segments) >= 2 /\ body.joinSegments

\* the request was answered by the catch block before anything ran, on a
\* session that exists and with an input that was resolved
CaughtAtStart(r) ==
  /\ requests[r].pc = "done"
  /\ requests[r].outcome = "none"
  /\ requests[r].session # NoSession
  /\ requests[r].status = 500

\* C15: a trim request handed to ffmpeg has one range and no join (a single
\* clip) or at least two ranges and join (a concatenation); a trim request
\* that failed in trimVideo itself has neither shape, and no trim request
\* of either shape fails there.
C15_TrimShapes ==
  \A r \in RequestIds :
     requests[r].kind = "trim" =>
       /\ requests[r].pc = "executing" =>
            /\ TrimShapeValid(requests[r].body)
            /\ requests[r].command.op =
                 IF requests[r].body.joinSegments THEN "concat" ELSE "trim"
       /\ CaughtAtStart(r) => ~TrimShapeValid(requests[r].body)
       /\ (requests[r].pc = "done" /\ requests[r].outcome = "none"
             /\ ~TrimShapeValid(requests[r].body))
            => requests[r].status \in {404, 500}

\* several ranges without join were refused while a join of two ranges
\* is running
C15_Witness ==
  \E r \in RequestIds : \E q \in RequestIds :
     /\ requests[r].kind = "trim" /\ CaughtAtStart(r)
     /\ Len(requests[r].body.segments) = 2
     /\ ~requests[r].body.joinSegments
     /\ requests[q].kind = "trim" /\ requests[q].pc = "executing"
     /\ requests[q].command.op = "concat"

\* a trim request of neither accepted shape, or a join request with no
\* entry, an entry without ranges, or a range that does not end after its
\* start
StructurallyInvalid(req) ==
  \/ req.kind = "trim" /\ ~TrimShapeValid(req.body)
  \/ /\ req.kind = "multi"
     /\ \/ Len(req.body.videoSegments) = 0
        \/ \E i \in 1..Len(req.body.videoSegments) :
              LET ranges == req.body.videoSegments[i].segments IN
              \/ Len(ranges) = 0
              \/ \E j \in 1..Len(ranges) : ranges[j].start >= ranges[j].end

\* C16: the step in which a structurally invalid trim or join request
\* arrives answers it (400 for the join, 500 from the catch block for the
\* trim, when the session and the version exist), builds no ffmpeg command,
\* and leaves the sessions, the histories and the files as they were.
C16_InvalidRejectedAtOnce ==
  [][\A r \in RequestIds :
       (requests[r].pc = "idle" /\ requests'[r].pc # "idle"
          /\ StructurallyInvalid(requests'[r]))
         => /\ requests'[r].pc = "done"
            /\ requests'[r].outcome = "none"
            /\ requests'[r].command = NoCommand
            /\ requests'[r].status \in {400, 404, 500}
            /\ (requests'[r].session # NoSession
                  /\ requests'[r].status # 404)
                 => requests'[r].status =
                      IF requests'[r].kind = "multi" THEN 400 ELSE 500
            /\ UNCHANGED <<store, disk>>]_vars

\* a join request with a range that ends before it starts was answered 400
\* on a session that holds one version, and still holds exactly that one
C16_Witness ==
  \E r \in RequestIds :
     /\ requests[r].kind = "multi"
     /\ requests[r].status = 400
     /\ Len(requests[r].body.videoSegments) = 1
     /\ Len(requests[r].body.videoSegments[1].segments) = 2
     /\ requests[r].session \in Live
     /\ Len(editHistory[requests[r].session]) = 1
     /\ sessionObj[requests[r].session].currentVersion = 1

\* C17: a running trim with join and at least two ranges concatenates as
\* many clips as ranges were requested, the i-th clip being the i-th
\* requested range: no sorting, no merging, no removal of repeats.
C17_JoinKeepsCallerOrder ==
  \A r \in RequestIds :
     (requests[r].kind = "trim" /\ requests[r].pc = "executing"
        /\ requests[r].body.joinSegments
        /\ Len(requests[r].body.segments) >= 2)
       => /\ requests[r].command.op = "concat"
          /\ Len(requests[r].command.ranges) = Len(requests[r].body.segments)
          /\ \A i \in 1..Len(requests[r].body.segments) :
                requests[r].command.ranges[i] = requests[r].body.segments[i]

\* one join runs with its later range first, another with the same range
\* twice
C17_Witness ==
  \E r \in RequestIds : \E q \in RequestIds :
     /\ requests[r].pc = "executing" /\ requests[r].kind = "trim"
     /\ requests[r].command = [op |-> "concat", ranges |-> <<R2, R1>>]
     /\ requests[q].pc = "executing" /\ requests[q].kind = "trim"
     /\ requests[q].command = [op |-> "concat", ranges |-> <<R1, R1>>]

WellFormed(range) == 0 <= range.start /\ range.start < range.end

\* C18: every range of a command handed to ffmpeg satisfies
\* 0 <= start < end.
C18_RangesValidated ==
  \A r \in RequestIds :
     requests[r].pc = "executing" =>
       \A i \in 1..Len(requests[r].command.ranges) :
          WellFormed(requests[r].command.ranges[i])

MuteKinds == {"audio", "profanity"}

\* a mute request that came with no range and is with ffmpeg now
ZeroRangeMute(r) ==
  /\ requests[r].kind \in MuteKinds
  /\ Len(requests[r].body.segments) = 0
  /\ requests[r].pc = "executing"

\* C19 as stated: a mute request with zero ranges, on either endpoint, has
\* ffmpeg make a copy with nothing muted: the ranges of the command are the
\* zero ranges of the request.
C19_ZeroRangesPassThrough ==
  \A r \in RequestIds :
     ZeroRangeMute(r) =>
       requests[r].command = [op |-> "copy", ranges |-> <<>>]

\* C19 amended: process/audio-remove with zero ranges has ffmpeg make a
\* copy; process/profanity with zero ranges mutes the ranges its own
\* detection found, and has ffmpeg make a copy when those are none; and the
\* success of ffmpeg on a zero-range mute appends one version.
C19_ZeroRangesAmended ==
  /\ [](\A r \in RequestIds :
          ZeroRangeMute(r) =>
            IF requests[r].kind = "audio"
            THEN requests[r].command = [op |-> "copy", ranges |-> <<>>]
            ELSE /\ requests[r].finalSegments \in DetectedSegments
                 /\ requests[r].command.ranges = requests[r].finalSegments
                 /\ requests[r].command.op = "copy"
                      <=> Len(requests[r].finalSegments) = 0)
  /\ [][\A r \in RequestIds :
          (ZeroRangeMute(r) /\ requests'[r].outcome = "ok")
            => /\ Len(editHistory'[requests[r].sessionId])
                    = Len(GetHistory(requests[r].sessionId)) + 1
               /\ requests'[r].appended
                    = sessionObj'[requests[r].session].currentVersion]_vars

\* a zero-range audio-remove, run as a copy, has appended a version, and a
\* zero-range profanity request whose detection found nothing runs as a copy
C19_Witness ==
  \E r \in RequestIds : \E s \in Live :
     /\ ZeroRangeMute(r)
     /\ requests[r].kind = "profanity"
     /\ requests[r].command.op = "copy"
     /\ requests[r].sessionId = s
     /\ Len(editHistory[s]) = 1
     /\ editHistory[s][1].type = "audio_removal"
     /\ Len(editHistory[s][1].segments) = 0

\* the time points the model distinguishes
MaxTime == 6
TimePoints == 0..MaxTime

\* the time points a mute command silences
Muted(command) == {t \in TimePoints : Mutes(command, t)}

\* the union of the ranges, end points included as between() includes them
Covered(ranges) ==
  {t \in TimePoints :
     \E i \in 1..Len(ranges) : ranges[i].start <= t /\ t <= ranges[i].end}

Reverse(ranges) == [i \in 1..Len(ranges) |-> ranges[Len(ranges) + 1 - i]]

\* a mute request that is with ffmpeg now
RunningMute(r) ==
  requests[r].kind \in MuteKinds /\ requests[r].pc = "executing"

\* the command either mute function builds for a list of ranges
MuteCommand(kind, ranges) ==
  IF kind = "audio" THEN RemoveAudioCommand(ranges)
  ELSE MuteProfanityCommand(ranges)

\* C20: the time points a running mute command silences are those of the
\* union of its ranges; the same ranges given twice over, or in the
\* opposite order, silence the same time points.
C20_MuteIsUnionOfRanges ==
  \A r \in RequestIds :
     RunningMute(r) =>
       LET ranges == requests[r].finalSegments
           kind == requests[r].kind
       IN /\ requests[r].command = MuteCommand(kind, ranges)
          /\ Muted(requests[r].command) = Covered(ranges)
          /\ Muted(MuteCommand(kind, ranges \o ranges))
               = Muted(requests[r].command)
          /\ Muted(MuteCommand(kind, Reverse(ranges)))
               = Muted(requests[r].command)

\* one endpoint mutes the same range twice, the other two overlapping
\* ranges, the later one first
C20_Witness ==
  \E r \in RequestIds : \E q \in RequestIds :
     /\ RunningMute(r) /\ requests[r].kind = "audio"
     /\ requests[r].finalSegments = <<R1, R1>>
     /\ Muted(requests[r].command) = 0..2
     /\ RunningMute(q) /\ requests[q].kind = "profanity"
     /\ requests[q].finalSegments = <<R2, ROver>>
     /\ Muted(requests[q].command) = 1..5

\* the entries of a join request name registered videos of its session
NamesRegistered(req) ==
  \A i \in 1..Len(req.body.videoSegments) :
     HasVideo(req.session, req.body.videoSegments[i].videoId)

\* C21: a join handed to ffmpeg has a non-empty list whose entries each
\* carry a source id, registered to the request's session, and at least
\* one range, every range satisfying 0 <= start < end; a join request
\* that is not of that kind is answered at once and appends nothing.
C21_JoinAccepted ==
  \A r \in RequestIds :
     requests[r].kind = "multi" =>
       LET vs == requests[r].body.videoSegments
           acceptable ==
             /\ requests[r].session # NoSession
             /\ Len(vs) > 0
             /\ \A i \in 1..Len(vs) :
                   /\ vs[i].videoId # ""
                   /\ Len(vs[i].segments) > 0
                   /\ \A j \in 1..Len(vs[i].segments) :
                         WellFormed(vs[i].segments[j])
             /\ NamesRegistered(requests[r])
       IN /\ requests[r].pc = "executing" => acceptable
          /\ (requests[r].pc = "done" /\ requests[r].outcome = "none")
               => /\ ~acceptable
                  /\ requests[r].appended = 0
                  /\ requests[r].command = NoCommand

\* the places (session, position) at which file f is registered
Registrations(f) ==
  { <<s, i>> \in (DOMAIN sessionObj) \X (1..Cardinality(FileIds)) :
      i <= Len(sessionObj[s].videos) /\ sessionObj[s].videos[i].id = f }

\* C22: an upload-multiple request with files that names no session of the
\* map is answered 404 in its first step and registers nothing; a running
\* request holds the session it named; a file is registered at most once,
\* in one session, as the descriptor made from the stored file; and a
\* registered descriptor is never changed or removed, a step adding at most
\* descriptors to the session of the running request.
C22_RegisterSource ==
  /\ [](/\ uploadReq.status = 404 => uploadReq.sessionId \notin videoSessions
        /\ uploadReq.pc = "probing" =>
             /\ uploadReq.session = uploadReq.sessionId
             /\ uploadReq.session \in DOMAIN sessionObj
        /\ \A f \in FileIds :
             /\ Cardinality(Registrations(f)) <= 1
             /\ Registrations(f) # {} => f \in uploaded
        /\ \A s \in DOMAIN sessionObj :
             \A i \in 1..Len(sessionObj[s].videos) :
                sessionObj[s].videos[i]
                  = FileInfo(sessionObj[s].videos[i].id))
  /\ [][/\ (uploadReq.pc = "idle" /\ uploadReq' # uploadReq)
             => /\ UNCHANGED sessionObj
                /\ (uploaded' # uploaded
                      /\ uploadReq'.sessionId \notin videoSessions)
                     => /\ uploadReq'.pc = "idle"
                        /\ uploadReq'.status = 404
        /\ \A s \in DOMAIN sessionObj :
             /\ IsPrefix(sessionObj[s].videos, sessionObj'[s].videos)
             /\ sessionObj'[s].videos # sessionObj[s].videos
                  => /\ uploadReq.pc = "probing"
                     /\ uploadReq.session = s]_vars

\* f1 is registered to a live session and the upload of f2 into a session
\* that is not in the map has been answered 404, f2 registered nowhere
C22_Witness ==
  /\ uploadReq.status = 404
  /\ uploaded = {"f1", "f2"}
  /\ Registrations("f2") = {}
  /\ \E s \in Live : sessionObj[s].videos = <<FileInfo("f1")>>

\* a detect request is answered with its report in this step
DetectAnswered == detectReq.pc = "transcribing" /\ detectReq'.status = 200

\* the combined vocabulary of the request answered in this step: built-in
\* words, custom vocabulary and the lowercased customWords of the request
Vocabulary ==
  BuiltInProfanity
    \cup customProfanityList
    \cup {ToLowerCase(detectReq.customWords[i]) :
            i \in 1..Len(detectReq.customWords)}

\* the records of the profane words in the report of the next state
ProfaneRecords ==
  UNION { { seg.highlightedWords[i] : i \in 1..Len(seg.highlightedWords) } :
            seg \in { detectReq'.profanityData.segments[k] :
                        k \in 1..Len(detectReq'.profanityData.segments) } }

\* C23: in the report of a detect request, every profane word whose
\* lowercased form is in the combined vocabulary is recorded as detected
\* by "list", also when the filter changes it, and every other profane word
\* as detected by "filter".
C23_ListTakesPriority ==
  [][DetectAnswered =>
       \A hw \in ProfaneRecords :
          hw.isProfane =>
            hw.detectedBy = IF ToLowerCase(hw.word) \in Vocabulary
                              THEN "list" ELSE "filter"]_vars

\* what the code records: "filter" whenever the filter changes the word
C23_FilterTakesPriority ==
  [][DetectAnswered =>
       \A hw \in ProfaneRecords :
          hw.isProfane =>
            hw.detectedBy = IF hw.word \in detectReq'.changed
                              THEN "filter" ELSE "list"]_vars

\* whether a word of the request answered in this step is profane
Profane(word) ==
  ToLowerCase(word) \in Vocabulary \/ word \in detectReq'.changed

\* the entries of a transcript with a profane word
ProfaneEntries(transcript) ==
  SelectSeq(transcript,
            LAMBDA entry :
              \E i \in 1..Len(Split(entry.text)) :
                 Profane(Split(entry.text)[i]))

\* C24: the report of a detect request has one segment for each entry of
\* the transcript with a profane word, in the order of the entries, and none
\* for the others; the segment has one record per word of the entry, in the
\* order of the words, telling whether the word is profane; a transcript
\* without entries gives a report without segments, answered 200.
C24_SegmentIffProfane ==
  [][DetectAnswered =>
       LET entries == ProfaneEntries(detectReq'.transcript)
           segs == detectReq'.profanityData.segments
       IN  /\ Len(segs) = Len(entries)
           /\ \A k \in 1..Len(segs) :
                LET words == Split(entries[k].text)
                    hws == segs[k].highlightedWords
                IN  /\ segs[k].index = entries[k].index
                    /\ segs[k].text = entries[k].text
                    /\ Len(hws) = Len(words)
                    /\ \A i \in 1..Len(words) :
                         /\ hws[i].word = words[i]
                         /\ hws[i].index = i - 1
                         /\ hws[i].isProfane = Profane(words[i])
           /\ detectReq'.transcript = <<>> => segs = <<>>]_vars

\* a transcript of two entries of which only the second, "hello  heck" with
\* its three words, has a profane word
C24_Witness ==
  /\ detectReq.status = 200
  /\ Len(detectReq.transcript) = 2
  /\ Len(detectReq.profanityData.segments) = 1
  /\ detectReq.profanityData.segments[1].index = 2
  /\ Len(detectReq.profanityData.segments[1].highlightedWords) = 3
  /\ ~ detectReq.profanityData.segments[1].highlightedWords[1].isProfane

\* C25: the transcript of a detect request has one entry per segment of the
\* recognition, numbered 1..n in that order with the segment's times, and
\* every segment of the report carries the index of exactly one entry and
\* that entry's start and end.
C25_SegmentsReferEntries ==
  detectReq.status = 200 =>
    LET entries == detectReq.transcript
        segs == detectReq.profanityData.segments
    IN  /\ Len(entries) = Len(detectReq.segments)
        /\ \A i \in 1..Len(entries) :
             /\ entries[i].index = i
             /\ entries[i].startSeconds = detectReq.segments[i].start
             /\ entries[i].endSeconds = detectReq.segments[i].end
        /\ \A k \in 1..Len(segs) :
             /\ Cardinality({i \in 1..Len(entries) :
                               entries[i].index = segs[k].index}) = 1
             /\ \A i \in 1..Len(entries) :
                  entries[i].index = segs[k].index =>
                    /\ segs[k].start = entries[i].startSeconds
                    /\ segs[k].end = entries[i].endSeconds

\* both entries of a transcript are in the report
C25_Witness ==
  /\ detectReq.status = 200
  /\ Len(detectReq.transcript) = 2
  /\ Len(detectReq.profanityData.segments) = 2
  /\ detectReq.profanityData.segments[2].index = 2
  /\ detectReq.profanityData.segments[2].start = 2
  /\ detectReq.profanityData.segments[2].end = 4

\* C26: a detect request changes nothing but the custom vocabulary, into
\* which its lowercased customWords are merged.
C26_CustomWordsMerged ==
  [][DetectAnswered =>
       /\ UNCHANGED <<store, disk, requests, others>>
       /\ customProfanityList' = customProfanityList
            \cup {ToLowerCase(detectReq.customWords[i]) :
                    i \in 1..Len(detectReq.customWords)}]_vars

\* the segments sent by the page are those of the report, in its order, that
\* have a word satisfying hit, the word given with its record
SentAreThoseWith(hit) ==
  LET kept == SelectSeq(page.profanityData,
                        LAMBDA seg : \E i \in 1..Len(seg.highlightedWords) :
                                        hit[seg.highlightedWords[i]])
  IN  /\ Len(page.segments) = Len(kept)
      /\ \A k \in 1..Len(kept) :
           /\ page.segments[k].start = kept[k].start
           /\ page.segments[k].end = kept[k].end

\* the records of the words of the report shown
RecordsShown ==
  UNION { { seg.highlightedWords[i] : i \in 1..Len(seg.highlightedWords) } :
            seg \in { page.profanityData[k] :
                        k \in 1..Len(page.profanityData) } }

\* C27: the ranges the page sends for muting are the (start, end) of the
\* segments of the report, in report order, that have a highlighted word,
\* profane or clean, whose lowercased text is among the selected words;
\* with no word selected no range is sent.
C27_SelectedSegmentsSent ==
  page.pc \in {"muting", "done"} /\ page.ready =>
    /\ SentAreThoseWith([hw \in RecordsShown |->
                           Includes(page.selectedWords,
                                    ToLowerCase(hw.word))])
    /\ page.selectedWords = <<>> => page.segments = <<>>

\* what the code sends: the word must also be tagged profane
C27_SelectedProfaneSegmentsSent ==
  page.pc \in {"muting", "done"} /\ page.ready =>
    /\ SentAreThoseWith([hw \in RecordsShown |->
                           /\ hw.isProfane
                           /\ Includes(page.selectedWords,
                                       ToLowerCase(hw.word))])
    /\ page.selectedWords = <<>> => page.segments = <<>>

\* the number written by the two digits of str from position i on
TwoDigitNumber(str, i) == 10 * DigitVal(str[i]) + DigitVal(str[i + 1])

\* C28: srtTimeToSeconds of a string HH:MM:SS,mmm is hours * 3600 +
\* minutes * 60 + seconds + milliseconds / 1000, here in milliseconds;
\* "00:01:02,500" gives 62500 ms.
C28_TimeConversion ==
  srt.pc = "converted" =>
    /\ srt.seconds =
         3600000 * TwoDigitNumber(srt.time, 1)
           + 60000 * TwoDigitNumber(srt.time, 4)
           + 1000 * TwoDigitNumber(srt.time, 7)
           + 100 * DigitVal(srt.time[10]) + TwoDigitNumber(srt.time, 11)
    /\ srt.time = <<"0", "0", ":", "0", "1", ":", "0", "2", ",", "5", "0", "0">>
         => srt.seconds = 62500

\* "00:01:02,500" has been converted
C28_Witness ==
  /\ srt.pc = "converted"
  /\ srt.time = <<"0", "0", ":", "0", "1", ":", "0", "2", ",", "5", "0", "0">>
  /\ srt.seconds = 62500

\* the numbers of the complete blocks of a subtitle text, in order
GoodBlocks(blocks) ==
  SelectSeq([n \in 1..Len(blocks) |-> n], LAMBDA n : blocks[n] = "good")

\* C29: parseSRT, in either variant, does not throw whatever the blocks of
\* the subtitle text are, and returns one entry for each complete block, in
\* the order of the blocks, and none for the others.
C29_MalformedBlocksSkipped ==
  srt.pc \in {"parsed", "parsedFirst"} =>
    /\ ~ srt.threw
    /\ Len(srt.entries) = Len(GoodBlocks(srt.blocks))
    /\ \A k \in 1..Len(srt.entries) :
         srt.entries[k].text = TextLine(GoodBlocks(srt.blocks)[k])

\* the lowercased selectedWords of a request
SelectedLower(req) ==
  {ToLowerCase(req.body.selectedWords[i]) :
     i \in 1..Len(req.body.selectedWords)}

\* the words of entry that are in the custom vocabulary, by position
CustomHits(entry) ==
  {i \in 1..Len(Split(entry.text)) :
     ToLowerCase(Split(entry.text)[i]) \in customProfanityList}

\* C30: the custom vocabulary is one set for all sessions and never loses a
\* word: no step removes a word, a step of a session delete leaves the set
\* as it is, an apply-mute request that gets past its session lookup has
\* put its lowercased selectedWords into the set, and a detect request,
\* whatever words it carries itself, reports every transcript entry with a
\* word of the set, that word tagged profane.
C30_VocabularyShared ==
  [][/\ customProfanityList \subseteq customProfanityList'
     /\ destroyReq' # destroyReq => UNCHANGED customProfanityList
     /\ \A r \in RequestIds :
          (/\ requests[r].pc = "idle"
           /\ requests'[r].kind = "profanity"
           /\ requests'[r].pc \notin {"idle", "done"})
            => SelectedLower(requests'[r]) \subseteq customProfanityList'
     /\ DetectAnswered =>
          \A n \in 1..Len(detectReq'.transcript) :
             CustomHits(detectReq'.transcript[n]) # {} =>
               \E k \in 1..Len(detectReq'.profanityData.segments) :
                  LET seg == detectReq'.profanityData.segments[k]
                  IN  /\ seg.index = detectReq'.transcript[n].index
                      /\ \A i \in CustomHits(detectReq'.transcript[n]) :
                           seg.highlightedWords[i].isProfane]_vars

\* an apply-mute request with the word "Heck" is under way in a session that
\* has been deleted since, and a detect request without words of its own
\* has reported the entry "hello  heck" for its word "heck"
C30_Witness ==
  /\ \E r \in RequestIds :
       /\ requests[r].kind = "profanity"
       /\ requests[r].pc \notin {"idle", "done"}
       /\ requests[r].body.selectedWords = <<"Heck">>
       /\ requests[r].sessionId \notin videoSessions
  /\ detectReq.status = 200
  /\ detectReq.customWords = <<>>
  /\ Len(detectReq.profanityData.segments) = 1
  /\ detectReq.profanityData.segments[1].highlightedWords[3]
       = [word |-> "heck", index |-> 2, isProfane |-> TRUE,
          detectedBy |-> "list"]

\* the output filenames the version records of session s name
NamedFiles(s) ==
  {editHistory[s][i].filename : i \in 1..Len(editHistory[s])}

\* C31: within the history of one session no two version records name the
\* same output filename, whatever the interleaving of the requests.
C31_OutputNamesUnique ==
  \A s \in DOMAIN editHistory :
     \A i, j \in 1..Len(editHistory[s]) :
        i # j => editHistory[s][i].filename # editHistory[s][j].filename

\* C32: no output filename is named by version records of two different
\* sessions, so that the delete of one session unlinks no file a record of
\* another session names.
C32_OutputsNotShared ==
  \A a, b \in DOMAIN editHistory :
     a # b => NamedFiles(a) \cap NamedFiles(b) = {}

\* C33: the editHistory map and the videoSessions map have the same keys in
\* every reachable state, also after a request that was suspended on ffmpeg
\* while its session was deleted has come back.
C33_SameKeys == DOMAIN editHistory = videoSessions

\* the ids of the videos registered to session object s
RegisteredIds(s) ==
  {sessionObj[s].videos[i].id : i \in 1..Len(sessionObj[s].videos)}

\* C35: a single-source edit request with sourceVersion 'original' that has
\* been handed to whisper or ffmpeg names a file registered to the session
\* of the request; a request naming any other file is answered without a
\* dispatch.
C35_OriginalIsRegistered ==
  \A r \in RequestIds :
     (/\ requests[r].pc \in {"transcribing", "executing"}
      /\ requests[r].kind # "multi"
      /\ requests[r].sourceVersion = Original)
       => requests[r].fileId \in RegisteredIds(requests[r].session)

\* what is stored for session b: its object (counter and registered
\* sources), whether it is a key of the maps, and its history
StoredFor(sessions, objects, histories, b) ==
  <<objects[b], b \in sessions,
    IF b \in DOMAIN histories THEN <<histories[b]>> ELSE <<>>>>

\* the session a request names, given the request before and after a step
\* of its handler
NamedBy(before, after) ==
  IF before.pc \in {"idle", "done"} THEN after.sessionId
  ELSE before.sessionId

\* this step is a step of a request naming session b
NamesInStep(b) ==
  \/ \E r \in RequestIds :
        /\ requests'[r] # requests[r]
        /\ NamedBy(requests[r], requests'[r]) = b
  \/ uploadReq' # uploadReq /\ NamedBy(uploadReq, uploadReq') = b
  \/ destroyReq' # destroyReq /\ NamedBy(destroyReq, destroyReq') = b

\* C34: a step that changes what is stored for a session (its version
\* counter, its registered sources, its history, its being a session) is a
\* step of a request naming that session; requests naming another session,
\* whether they succeed or fail, leave it unchanged.
C34_SessionsIsolated ==
  [][\A b \in DOMAIN sessionObj :
        StoredFor(videoSessions', sessionObj', editHistory', b)
          # StoredFor(videoSessions, sessionObj, editHistory, b)
        => NamesInStep(b)]_vars

\* requests naming session 1 have registered a source, appended a version
\* and failed once, a request naming session 2 has been answered 500, and
\* session 2 is as it was created
C34_Witness ==
  /\ videoSessions = {1, 2}
  /\ Len(sessionObj[1].videos) = 1
  /\ sessionObj[1].currentVersion = 1
  /\ Len(editHistory[1]) = 1
  /\ requests[1].sessionId = 1 /\ requests[1].status = 200
  /\ requests[2].sessionId = 2 /\ requests[2].status = 500
  /\ sessionObj[2] = [videos |-> <<>>, currentVersion |-> 0]
  /\ editHistory[2] = <<>>


(* ------------------------------- C36 ----------------------------------- *)
\* the request in slot r is answered with an error in this step
EndsInError(r) ==
  /\ requests'[r] # requests[r]
  /\ requests'[r].pc = "done"
  /\ requests'[r].kind = "profanity"
  /\ requests'[r].status >= 400

\* C36: an apply-mute request that ends in an error (unknown session,
\* version not found, transcription failure, executor failure) leaves the
\* custom vocabulary as it was before the request: a request answered with
\* an error in its first stretch has changed nothing, and none of the words
\* a suspended request put in is still there when its error is answered.
C36_ErrorLeavesVocabulary ==
  [][\A r \in RequestIds :
       EndsInError(r) =>
         IF requests[r].pc \in {"idle", "done"}
         THEN customProfanityList' = customProfanityList
         ELSE requests[r].added \cap customProfanityList' = {}]_vars


(* ------------------------------- C37 ----------------------------------- *)
\* the upload-multiple request is answered with an error in this step
UploadEndsInError ==
  /\ uploadReq' # uploadReq
  /\ uploadReq'.pc = "idle"
  /\ uploadReq'.status >= 400

\* C37: an upload-multiple request that ends in an error leaves the
\* registered sources of its session as they were before the request:
\* either every file of the batch is registered or none is.
C37_UploadAllOrNothing ==
  [][UploadEndsInError =>
       IF uploadReq.pc = "probing"
       THEN sessionObj'[uploadReq.session].videos = uploadReq.before
       ELSE sessionObj' = sessionObj]_vars


(* ------------------------------- C38 ----------------------------------- *)
\* the handler of the request in slot r is suspended on an external process
\* or on the transcript read
Suspended(r) == requests[r].pc \notin {"idle", "done"}

\* C38: every edit request is answered, once: a suspended request is
\* answered eventually, an answer is given only by the step that ends the
\* handler, and an answered request is never answered again; and while a
\* request is suspended the next request can be dispatched and the external
\* process of any other suspended request can signal its end.
C38_EveryRequestAnswered ==
  /\ \A r \in RequestIds : Suspended(r) ~> requests[r].pc = "done"
  /\ [](\A r \in RequestIds :
          /\ requests[r].status # 0 => requests[r].pc = "done"
          /\ requests[r].pc = "done" => requests[r].status # 0)
  /\ [][\A r \in RequestIds :
          requests[r].pc = "done" => requests'[r] = requests[r]]_vars
  /\ [](\A r \in RequestIds, q \in RequestIds :
          Suspended(r) /\ q # r =>
            /\ NextRequest(q) =>
                 ENABLED (\/ StartEdit(q, EditKinds, {"f1", "f2"}, Bodies)
                          \/ StartMulti(q, MultiBodies))
            /\ requests[q].pc = "transcribing" =>
                 ENABLED (TranscribeOk(q) \/ TranscribeFail(q))
            /\ requests[q].pc = "executing" =>
                 ENABLED (ExecOk(q) \/ ExecFail(q))
            /\ requests[q].pc = "readTranscript" =>
                 ENABLED RespondProfanity(q))

\* the first request is still suspended on the executor while the second
\* one, sent later to the same session, has been answered 200
C38_Witness ==
  /\ requests[1].pc = "executing"
  /\ requests[2].pc = "done"
  /\ requests[2].status = 200
  /\ requests[2].sessionId = requests[1].sessionId

====
